---- MODULE Spec2Model ----
(***************************************************************************)
(* Token-stream translation and accumulation pipeline of the chat agent:   *)
(*   tokenGenerator      (src/src/lib/agent/index.ts)   engine -> chunks   *)
(*   GET / send          (src/src/lib/agent/memory.ts)  chunks -> SSE wire *)
(*   processStreamChunk  (src/src/hooks/useChatThread.ts) chunks -> list   *)
(*                                                                         *)
(* A JavaScript string is a sequence of atoms (an atom is a character or   *)
(* an indivisible piece of text such as an identifier), so that string     *)
(* concatenation is \o and the empty string is << >>.  An optional         *)
(* property that is absent (or undefined) is a field missing from the      *)
(* record's DOMAIN.                                                        *)
(***************************************************************************)
EXTENDS Integers, Sequences, FiniteSets, TLC

VARIABLES
  \* ---- client: useChatThread ----
  messages,            \* React Query cache ["messages", threadId]
  currentMessageId,    \* currentMessageIdRef.current
  accumulatedContent,  \* accumulatedContentRef.current
  isSending,           \* useState isSending
  started,             \* a session has been started (handleStreamResponse ran its prologue)
  trace,               \* history: the chunks handed to processStreamChunk by the thread view
  now,                 \* Date.now()
  \* ---- server: GET route ----
  encPc,               \* position of the background drain of GET
  cancelled,           \* the client has cancelled the response stream
  events,              \* history: the engine events pulled so far, each with the time of its pull
  pending,             \* chunks of the current event the generator has not yielded yet
  sent,                \* history: the chunks handed to send(), in order
  wire,                \* what controller.enqueue has put on the response, one entry per call
  pulledAt,            \* history: Len(wire) at each pull of an engine event
  rd,                  \* how much of the response the client has read
  \* ---- classifier alone ----
  clsIn,               \* the engine event under classification
  clsOut,              \* the chunks tokenGenerator yields for it
  clsDone,
  \* ---- tokenGenerator over an iterable ----
  genIn,               \* history: the events the iterable has produced so far
  genOut,              \* history: the chunks tokenGenerator has yielded for each event
  \* ---- middleware: addCORSHeaders ----
  request,             \* the NextRequest: its Origin header, method and pathname
  config,              \* the CORSConfig
  response,            \* the NextResponse: its status and its headers, by name
  corsPc,              \* "request" before the call of addCORSHeaders, "done" after it
  \* ---- client: sessions of handleStreamResponse ----
  sessions,            \* one record per call: its AbortController, its position, its buffer
  abortControllerRef,  \* abortControllerRef.current: index into sessions, 0 for null
  sendError,           \* useState sendError
  unmounted,           \* the cleanup effect has run
  script,              \* the response text a reader is given, as a sequence of pieces
  \* ---- service: setupOnce / ensureAgent ----
  setupPromise,        \* module variable setupPromise: 0 is null, k the promise of attempt k
  setups,              \* the checkpointer.setup() calls started so far, each with its state
  callers              \* the ensureAgent calls made so far, each with its position

vars == << messages, currentMessageId, accumulatedContent, isSending, started, trace, now,
           encPc, cancelled, events, pending, sent, wire, pulledAt, rd, clsIn, clsOut, clsDone,
           genIn, genOut, request, config, response, corsPc, setupPromise, setups, callers,
           sessions, abortControllerRef, sendError, unmounted, script >>

accVars == << messages, currentMessageId, accumulatedContent, isSending, started, trace >>
encVars == << encPc, cancelled, events, pending, sent, wire, pulledAt, rd >>
clsVars == << clsIn, clsOut, clsDone, genIn, genOut >>
corsVars == << request, config, response, corsPc >>
setupVars == << setupPromise, setups, callers >>
cliVars == << sessions, abortControllerRef, sendError, unmounted, script >>

-----------------------------------------------------------------------------
(* Bounds of the model *)

MaxChunks == 4
MaxEvents == 4
MaxRead == 6
MaxSessions == 2
MaxReads == 2
MaxPulls == 3
MaxOrigins == 2
MaxCalls == 3

\* Two values of Date.now(): the same millisecond, or a later one
Times == {1, 2}

-----------------------------------------------------------------------------
(* JavaScript values *)

Null == << "<null>" >>

Has(r, f) == f \in DOMAIN r

\* JavaScript truthiness of an optional string property
Truthy(r, f) == Has(r, f) /\ r[f] # << >> /\ r[f] # Null

\* Date.now().toString() and the template literal `${prefix}${Date.now()}`
TimeStr(t) == << ToString(t) >>

RECURSIVE Concat(_)
Concat(ss) == IF ss = << >> THEN << >> ELSE Head(ss) \o Concat(Tail(ss))

SelectIdx(s, Test(_)) == { i \in 1..Len(s) : Test(s[i]) }

Min(S) == CHOOSE i \in S : \A j \in S : i <= j

\* JSON-like values carried by engine messages and tool calls
JStr(s) == [kind |-> "string", v |-> s]
JNum(n) == [kind |-> "number", v |-> n]
JArr(items) == [kind |-> "array", items |-> items]
JObj(entries) == [kind |-> "object", entries |-> entries]
JNull == [kind |-> "null"]

-----------------------------------------------------------------------------
(* MessageAccumulator: processStreamChunk of useChatThread *)

\* old.findIndex((m) => m.type === "ai" && m.data.id === id); 0 stands for -1
FindAiIndex(old, id) ==
  LET S == { i \in 1..Len(old) : old[i].type = "ai" /\ old[i].data.id = id }
  IN  IF S = {} THEN 0 ELSE Min(S)

\* { ...data, [f]: v }
WithField(data, f, v) ==
  [g \in DOMAIN data \cup {f} |-> IF g = f THEN v ELSE data[g]]

IdOf(tc) == IF Has(tc, "id") THEN tc.id ELSE Null

\* A reset that forgets the open message and keeps the accumulated text
ResetAccumulationKeepsContent(st) == [st EXCEPT !.currentMessageId = Null]

\* currentMessageIdRef.current = null; accumulatedContentRef.current = ""
ResetAccumulation(st) ==
  [st EXCEPT !.currentMessageId = Null, !.accumulatedContent = << >>]

\* A token case that writes the chunk's own content instead of the accumulated content
TokenCaseNoAccumulate(st, chunk, t) ==
  LET acc == IF Truthy(chunk, "content") THEN chunk.content ELSE << >>
      messageId == IF Truthy(chunk, "messageId") THEN chunk.messageId
                   ELSE << "ai-" >> \o TimeStr(t)
  IN  IF st.currentMessageId = Null
      THEN [st EXCEPT !.accumulatedContent = acc,
                      !.currentMessageId = messageId,
                      !.messages = Append(@, [type |-> "ai",
                                              data |-> [id |-> messageId, content |-> acc]])]
      ELSE LET idx == FindAiIndex(st.messages, st.currentMessageId)
           IN  [st EXCEPT !.accumulatedContent = acc,
                          !.messages = IF idx = 0 THEN @
                                       ELSE [@ EXCEPT ![idx].data.content = acc]]

\* case "token"
TokenCase(st, chunk, t) ==
  LET acc == st.accumulatedContent
               \o (IF Truthy(chunk, "content") THEN chunk.content ELSE << >>)
      messageId == IF Truthy(chunk, "messageId") THEN chunk.messageId
                   ELSE << "ai-" >> \o TimeStr(t)
  IN  IF st.currentMessageId = Null
      THEN [st EXCEPT !.accumulatedContent = acc,
                      !.currentMessageId = messageId,
                      !.messages = Append(@, [type |-> "ai",
                                              data |-> [id |-> messageId, content |-> acc]])]
      ELSE LET idx == FindAiIndex(st.messages, st.currentMessageId)
           IN  [st EXCEPT !.accumulatedContent = acc,
                          !.messages = IF idx = 0 THEN @
                                       ELSE [@ EXCEPT ![idx].data.content = acc]]

\* A tool_call case without the duplicate-id guard
ToolCallCaseNoDedupe(st, chunk) ==
  IF st.currentMessageId # Null /\ Has(chunk, "toolCall")
  THEN LET idx == FindAiIndex(st.messages, st.currentMessageId)
       IN  IF idx = 0 THEN st
           ELSE LET currentData == st.messages[idx].data
                    existingToolCalls == IF Has(currentData, "tool_calls")
                                         THEN currentData.tool_calls ELSE << >>
                IN  [st EXCEPT !.messages[idx].data =
                        WithField(currentData, "tool_calls",
                                  Append(existingToolCalls, chunk.toolCall))]
  ELSE st

\* A tool_call case that creates an ai message for the call when none is open
ToolCallCaseOpensMessage(st, chunk) ==
  IF Has(chunk, "toolCall")
  THEN IF st.currentMessageId = Null
       THEN LET messageId == IF Truthy(chunk, "messageId") THEN chunk.messageId
                             ELSE << "ai-tool" >>
            IN  [st EXCEPT !.currentMessageId = messageId,
                           !.messages = Append(@,
                              [type |-> "ai",
                               data |-> [id |-> messageId, content |-> << >>,
                                         tool_calls |-> << chunk.toolCall >>]])]
       ELSE LET idx == FindAiIndex(st.messages, st.currentMessageId)
            IN  IF idx = 0 THEN st
                ELSE LET currentData == st.messages[idx].data
                         existingToolCalls == IF Has(currentData, "tool_calls")
                                              THEN currentData.tool_calls ELSE << >>
                         toolCallExists == \E i \in 1..Len(existingToolCalls) :
                                              IdOf(existingToolCalls[i]) = IdOf(chunk.toolCall)
                     IN  IF toolCallExists THEN st
                         ELSE [st EXCEPT !.messages[idx].data =
                                 WithField(currentData, "tool_calls",
                                           Append(existingToolCalls, chunk.toolCall))]
  ELSE st

\* case "tool_call"
ToolCallCase(st, chunk) ==
  IF st.currentMessageId # Null /\ Has(chunk, "toolCall")
  THEN LET idx == FindAiIndex(st.messages, st.currentMessageId)
       IN  IF idx = 0 THEN st
           ELSE LET currentData == st.messages[idx].data
                    existingToolCalls == IF Has(currentData, "tool_calls")
                                         THEN currentData.tool_calls ELSE << >>
                    toolCallExists == \E i \in 1..Len(existingToolCalls) :
                                         IdOf(existingToolCalls[i]) = IdOf(chunk.toolCall)
                IN  IF toolCallExists THEN st
                    ELSE [st EXCEPT !.messages[idx].data =
                            WithField(currentData, "tool_calls",
                                      Append(existingToolCalls, chunk.toolCall))]
  ELSE st

\* A tool_result case that appends the tool message and keeps the window open
ToolResultCaseNoReset(st, chunk, t) ==
  IF Has(chunk, "toolResult")
  THEN [st EXCEPT !.messages = Append(@,
          [type |-> "tool",
           data |-> [id |-> IF Truthy(chunk, "messageId") THEN chunk.messageId
                            ELSE << "tool-" >> \o TimeStr(t),
                     content |-> chunk.toolResult.content,
                     name |-> chunk.toolResult.name,
                     status |-> << "success" >>,
                     tool_call_id |-> IF Truthy(chunk, "messageId") THEN chunk.messageId
                                      ELSE << >>]])]
  ELSE st

\* A tool_result case that puts the tool message at the head of the list
ToolResultCasePrepends(st, chunk, t) ==
  IF Has(chunk, "toolResult")
  THEN LET toolMessage ==
             [type |-> "tool",
              data |-> [id |-> IF Truthy(chunk, "messageId") THEN chunk.messageId
                               ELSE << "tool-" >> \o TimeStr(t),
                        content |-> chunk.toolResult.content,
                        name |-> chunk.toolResult.name,
                        status |-> << "success" >>,
                        tool_call_id |-> IF Truthy(chunk, "messageId") THEN chunk.messageId
                                         ELSE << >>]]
       IN  ResetAccumulation([st EXCEPT !.messages = << toolMessage >> \o @])
  ELSE st

\* case "tool_result"
ToolResultCase(st, chunk, t) ==
  IF Has(chunk, "toolResult")
  THEN LET toolMessage ==
             [type |-> "tool",
              data |-> [id |-> IF Truthy(chunk, "messageId") THEN chunk.messageId
                               ELSE << "tool-" >> \o TimeStr(t),
                        content |-> chunk.toolResult.content,
                        name |-> chunk.toolResult.name,
                        status |-> << "success" >>,
                        tool_call_id |-> IF Truthy(chunk, "messageId") THEN chunk.messageId
                                         ELSE << >>]]
       IN  ResetAccumulation([st EXCEPT !.messages = Append(@, toolMessage)])
  ELSE st

\* A done case that ends the sending state and keeps the accumulation state
DoneCaseKeepsWindow(st) == [st EXCEPT !.isSending = FALSE]

\* case "done"
DoneCase(st) == ResetAccumulation([st EXCEPT !.isSending = FALSE])

\* The warning glyph U+26A0 U+FE0F and the blank after it
WarningPrefix == << "U+26A0", "U+FE0F", " " >>

\* An error case that appends the message and leaves the accumulation state as it is
ErrorCaseNoReset(st, chunk, t) ==
  LET errorMsg ==
        [type |-> "error",
         data |-> [id |-> << "err-" >> \o TimeStr(t),
                   content |-> WarningPrefix
                                 \o (IF Truthy(chunk, "error") THEN chunk.error
                                     ELSE << "An error occurred" >>)]]
  IN  [st EXCEPT !.messages = Append(@, errorMsg), !.isSending = FALSE]

\* case "error"
ErrorCase(st, chunk, t) ==
  LET errorMsg ==
        [type |-> "error",
         data |-> [id |-> << "err-" >> \o TimeStr(t),
                   content |-> WarningPrefix
                                 \o (IF Truthy(chunk, "error") THEN chunk.error
                                     ELSE << "An error occurred" >>)]]
  IN  ResetAccumulation([st EXCEPT !.messages = Append(@, errorMsg), !.isSending = FALSE])

\* switch (chunk.type), no default branch
processStreamChunk(st, chunk, t) ==
  CASE ~Has(chunk, "type") -> st
    [] chunk.type = "token" -> TokenCase(st, chunk, t)
    [] chunk.type = "tool_call" -> ToolCallCase(st, chunk)
    [] chunk.type = "tool_result" -> ToolResultCase(st, chunk, t)
    [] chunk.type = "done" -> DoneCase(st)
    [] chunk.type = "error" -> ErrorCase(st, chunk, t)
    [] OTHER -> st

AccState ==
  [messages |-> messages, currentMessageId |-> currentMessageId,
   accumulatedContent |-> accumulatedContent, isSending |-> isSending]

SetAccState(st) ==
  /\ messages' = st.messages
  /\ currentMessageId' = st.currentMessageId
  /\ accumulatedContent' = st.accumulatedContent
  /\ isSending' = st.isSending

\* The prologue of handleStreamResponse: setIsSending(true), reset of the accumulation state
StreamPrologue(st) == ResetAccumulation([st EXCEPT !.isSending = TRUE])

\* sendMessage: the optimistic human message, then handleStreamResponse
sendMessage(st, text, t) ==
  StreamPrologue([st EXCEPT !.messages =
      Append(@, [type |-> "human", data |-> [id |-> << "temp-" >> \o TimeStr(t),
                                             content |-> text]])])

-----------------------------------------------------------------------------
(* The chunks delivered to the accumulator *)

SearchCall(id) ==
  [name |-> << "search" >>, args |-> JObj(<< [k |-> << "q" >>, v |-> JStr(<< "x" >>)] >>),
   id |-> id, type |-> << "tool_call" >>]

TokenChunks ==
  { [type |-> "token", content |-> << "a" >>, messageId |-> << "m1" >>],
    [type |-> "token", content |-> << "b" >>, messageId |-> << "m1" >>],
    [type |-> "token", content |-> << "a" >>, messageId |-> << "m2" >>],
    [type |-> "token", content |-> << "b" >>],
    [type |-> "token", content |-> << >>, messageId |-> << "m1" >>] }

ToolCallChunks ==
  { [type |-> "tool_call", toolCall |-> SearchCall(<< "c1" >>), messageId |-> << "m1" >>],
    [type |-> "tool_call", toolCall |-> SearchCall(<< "c2" >>), messageId |-> << "m1" >>] }

ToolResultChunks ==
  { [type |-> "tool_result",
     toolResult |-> [name |-> << "search" >>, content |-> << "r" >>],
     messageId |-> << "t1" >>],
    [type |-> "tool_result",
     toolResult |-> [name |-> << "search" >>, content |-> << "r" >>]] }

DoneChunk == [type |-> "done"]

ErrorChunks ==
  { [type |-> "error", error |-> << "boom" >>], [type |-> "error"] }

-----------------------------------------------------------------------------
(* Actions of the accumulator *)

Tick ==
  /\ now + 1 \in Times
  /\ now' = now + 1
  /\ UNCHANGED << accVars, encVars, clsVars, corsVars, setupVars, cliVars >>

\* sendError when it is null
NoError == [name |-> "<null>", message |-> << >>]

\* A call of handleStreamResponse: awaiting fetch, with its own controller and buffer
NewSession == [phase |-> "fetching", aborted |-> FALSE, buffer |-> << >>]

\* if (abortControllerRef.current) abortControllerRef.current.abort()
AbortCurrent(ss, ref) == IF ref = 0 THEN ss ELSE [ss EXCEPT ![ref].aborted = TRUE]

\* A prologue that replaces the controller without aborting the one in use
BeginSessionNoAbort ==
  /\ sendError' = NoError
  /\ sessions' = Append(sessions, NewSession)
  /\ abortControllerRef' = Len(sessions) + 1

\* handleStreamResponse up to its fetch: setSendError(null), the abort of the stream in
\* use, the new AbortController
BeginSession ==
  /\ sendError' = NoError
  /\ sessions' = Append(AbortCurrent(sessions, abortControllerRef), NewSession)
  /\ abortControllerRef' = Len(sessions) + 1

StartSend ==
  /\ ~started
  /\ started' = TRUE
  /\ SetAccState(sendMessage(AccState, << "q" >>, now))
  /\ trace' = << >>
  /\ BeginSession
  /\ UNCHANGED << now, encVars, clsVars, corsVars, setupVars, unmounted, script >>

Deliver(chunk) ==
  /\ started
  /\ Len(trace) < MaxChunks
  /\ SetAccState(processStreamChunk(AccState, chunk, now))
  /\ trace' = Append(trace, chunk)
  /\ UNCHANGED << started, now, encVars, clsVars, corsVars, setupVars, cliVars >>

DeliverToken == \E chunk \in TokenChunks : Deliver(chunk)
DeliverToolCall == \E chunk \in ToolCallChunks : Deliver(chunk)
DeliverToolResult == \E chunk \in ToolResultChunks : Deliver(chunk)
DeliverDone == Deliver(DoneChunk)
DeliverError == \E chunk \in ErrorChunks : Deliver(chunk)

InitAcc ==
  /\ messages = << >>
  /\ currentMessageId = Null
  /\ accumulatedContent = << >>
  /\ isSending = FALSE
  /\ started = FALSE
  /\ trace = << >>
  /\ now = 1

InitEncIdle ==
  /\ encPc = "idle"
  /\ cancelled = FALSE
  /\ events = << >>
  /\ pending = << >>
  /\ sent = << >>
  /\ wire = << >>
  /\ pulledAt = << >>
  /\ rd = 0

InitCliIdle ==
  /\ sessions = << >>
  /\ abortControllerRef = 0
  /\ sendError = NoError
  /\ unmounted = FALSE
  /\ script = << >>

InitGenIdle ==
  /\ genIn = << >>
  /\ genOut = << >>

\* No request is being answered
InitSetupIdle ==
  /\ setupPromise = 0
  /\ setups = << >>
  /\ callers = << >>

InitCorsIdle ==
  /\ request = [origin |-> Null, method |-> "GET", pathname |-> << "/" >>]
  /\ config = [allowedOrigins |-> << >>]
  /\ response = [status |-> 0, headers |-> << >>]
  /\ corsPc = "idle"

InitClsIdle ==
  /\ clsIn = JNull
  /\ clsOut = << >>
  /\ clsDone = FALSE
  /\ InitGenIdle

AccInit == InitAcc /\ InitEncIdle /\ InitClsIdle /\ InitCorsIdle /\ InitSetupIdle /\ InitCliIdle

AccNext ==
  \/ Tick
  \/ StartSend
  \/ DeliverToken
  \/ DeliverToolCall
  \/ DeliverToolResult
  \/ DeliverDone
  \/ DeliverError

SpecAcc == AccInit /\ [][AccNext]_vars

-----------------------------------------------------------------------------
(* Reading the message list and the chunk history *)

TypesOf(ms) == [i \in 1..Len(ms) |-> ms[i].type]

IsAi(m) == m.type = "ai"

AiMessages(ms) == SelectSeq(ms, IsAi)

AiContents(ms) == LET ai == AiMessages(ms) IN [i \in 1..Len(ai) |-> ai[i].data.content]

ToolCallsOf(m) == IF Has(m.data, "tool_calls") THEN m.data.tool_calls ELSE << >>

ToolCallIdsOf(m) == LET tcs == ToolCallsOf(m) IN [i \in 1..Len(tcs) |-> IdOf(tcs[i])]

ContentOf(chunk) == IF Has(chunk, "content") THEN chunk.content ELSE << >>

ClosesWindow(chunk) == chunk.type \in {"tool_result", "done", "error"}

\* The token contents of each accumulation window of a chunk sequence that holds a
\* token, concatenated in arrival order, one entry per such window
RECURSIVE WindowContents(_, _, _)
WindowContents(tr, open, cur) ==
  IF tr = << >> THEN (IF open THEN << cur >> ELSE << >>)
  ELSE LET c == Head(tr)
       IN  IF c.type = "token" THEN WindowContents(Tail(tr), TRUE, cur \o ContentOf(c))
           ELSE IF ClosesWindow(c)
                THEN (IF open THEN << cur >> ELSE << >>) \o WindowContents(Tail(tr), FALSE, << >>)
                ELSE WindowContents(Tail(tr), open, cur)

\* Every chunk of tr is a token with non-empty content and messageId m
SameIdTokens(tr, m) ==
  /\ tr # << >>
  /\ \A i \in 1..Len(tr) :
        /\ tr[i].type = "token"
        /\ Truthy(tr[i], "content")
        /\ Has(tr[i], "messageId") /\ tr[i].messageId = m

MessageIds == { << "m1" >>, << "m2" >> }

\* tr is N >= 1 tokens with messageId m, one tool_result, M >= 1 tokens with messageId m
ResetPattern(tr, m) ==
  \E n \in 1..(Len(tr) - 2) :
     /\ tr[n + 1].type = "tool_result"
     /\ \A i \in (1..Len(tr)) \ {n + 1} :
           tr[i].type = "token" /\ Has(tr[i], "messageId") /\ tr[i].messageId = m

-----------------------------------------------------------------------------
(* Claims about the accumulator *)

\* C1 (as claimed): after any chunk sequence of one request, the contents of the ai
\* messages are, in order, the concatenated token contents of the accumulation windows
\* that created them, also when a messageId is repeated across windows.
C1_WindowFidelity ==
  started => AiContents(messages) = WindowContents(trace, FALSE, << >>)

\* C2: a non-empty sequence of non-empty token chunks with one messageId, applied to a
\* reset accumulator, leaves the list ending with exactly one ai message, with that id
\* and with the concatenation of the chunk contents in arrival order as its content.
C2_TokenFidelity ==
  \A m \in MessageIds :
     (started /\ SameIdTokens(trace, m)) =>
        /\ Len(AiMessages(messages)) = 1
        /\ messages[Len(messages)].type = "ai"
        /\ messages[Len(messages)].data.id = m
        /\ messages[Len(messages)].data.content
             = Concat([i \in 1..Len(trace) |-> trace[i].content])

C2_Witness ==
  /\ SameIdTokens(trace, << "m1" >>)
  /\ Len(trace) = 3
  /\ messages[Len(messages)].data.content = << "a", "b", "a" >>

\* C3: N >= 1 tokens with messageId m1, one tool_result, then M >= 1 tokens that reuse
\* m1 give exactly two ai messages with one tool message between them.
C3_ToolResultReset ==
  \A m \in MessageIds :
     (started /\ ResetPattern(trace, m)) =>
        TypesOf(messages) = << "human", "ai", "tool", "ai" >>

C3_Witness ==
  /\ ResetPattern(trace, << "m1" >>)
  /\ Len(trace) = 4
  /\ trace[3].type = "tool_result"
  /\ Len(AiMessages(messages)) = 2

Distinct(ids) == \A i, j \in 1..Len(ids) : i # j => ids[i] # ids[j]

ToolCallIdsDistinct ==
  \A i \in 1..Len(messages) : IsAi(messages[i]) => Distinct(ToolCallIdsOf(messages[i]))

\* What a step that delivers a tool_call chunk may do to the list
ToolCallStepOk ==
  (trace' # trace /\ trace'[Len(trace')].type = "tool_call") =>
     LET chunk == trace'[Len(trace')]
         idx == FindAiIndex(messages, currentMessageId)
     IN  /\ Len(messages') = Len(messages)
         /\ \A i \in 1..Len(messages) :
               \/ messages'[i] = messages[i]
               \/ /\ IsAi(messages[i])
                  /\ ToolCallsOf(messages'[i]) = Append(ToolCallsOf(messages[i]), chunk.toolCall)
         /\ (/\ currentMessageId # Null
             /\ idx # 0
             /\ \E k \in 1..Len(ToolCallsOf(messages[idx])) :
                   ToolCallIdsOf(messages[idx])[k] = IdOf(chunk.toolCall))
            => messages' = messages

\* C4: the tool_calls of every ai message have pairwise distinct ids in first-arrival
\* order; a tool_call chunk whose id is already present leaves the list unchanged, so
\* the same chunk delivered twice gives exactly one entry.
C4_IdempotentToolCall == []ToolCallIdsDistinct /\ [][ToolCallStepOk]_vars

C4_Witness ==
  /\ Len(trace) = 3
  /\ trace[1].type = "token"
  /\ trace[2].type = "tool_call"
  /\ trace[3] = trace[2]
  /\ Len(ToolCallsOf(messages[2])) = 1

-----------------------------------------------------------------------------
(* ChunkClassifier: tokenGenerator of the agent service *)

\* !v for the values an engine event is made of
Falsy(v) ==
  \/ v.kind = "null"
  \/ v.kind = "string" /\ v.v = << >>
  \/ v.kind = "number" /\ v.v = 0

\* A serializer that writes every character of a string as it is
EscapeAtomRaw(a) == << a >>

\* The escapes JSON.stringify applies inside a string
EscapeAtom(a) ==
  CASE a = "\"" -> << "\\", "\"" >>
    [] a = "\\" -> << "\\", "\\" >>
    [] a = "\n" -> << "\\", "n" >>
    [] a = "\t" -> << "\\", "t" >>
    [] OTHER -> << a >>

Escape(s) == Concat([i \in 1..Len(s) |-> EscapeAtom(s[i])])

Quoted(s) == << "\"" >> \o Escape(s) \o << "\"" >>

\* parts joined with commas
RECURSIVE JoinComma(_)
JoinComma(parts) ==
  IF parts = << >> THEN << >>
  ELSE IF Len(parts) = 1 THEN parts[1]
  ELSE parts[1] \o << "," >> \o JoinComma(Tail(parts))

\* JSON.stringify(value)
RECURSIVE JSONStringify(_)
JSONStringify(v) ==
  CASE v.kind = "string" -> Quoted(v.v)
    [] v.kind = "number" -> << ToString(v.v) >>
    [] v.kind = "null" -> << "null" >>
    [] v.kind = "array" ->
         << "[" >> \o JoinComma([i \in 1..Len(v.items) |-> JSONStringify(v.items[i])]) \o << "]" >>
    [] v.kind = "object" ->
         << "{" >>
           \o JoinComma([i \in 1..Len(v.entries) |->
                 Quoted(v.entries[i].k) \o << ":" >> \o JSONStringify(v.entries[i].v)])
           \o << "}" >>

\* { ...chunk, messageId: message.id }: an undefined id leaves the property unset
WithMessageId(chunk, message) ==
  IF Has(message, "id") THEN WithField(chunk, "messageId", message.id) ELSE chunk

\* A string content that yields a token also when it is empty
StringContentChunksAlways(aiMessage) ==
  << WithMessageId([type |-> "token", content |-> aiMessage.content.v], aiMessage) >>

\* if (typeof content === "string" && content) yield token
StringContentChunks(aiMessage) ==
  IF aiMessage.content.v # << >>
  THEN << WithMessageId([type |-> "token", content |-> aiMessage.content.v], aiMessage) >>
  ELSE << >>

\* The chunks of one item of an array content
ItemChunks(item, aiMessage, t) ==
  IF item.kind = "string"
  THEN (IF item.v # << >>
        THEN << WithMessageId([type |-> "token", content |-> item.v], aiMessage) >>
        ELSE << >>)
  ELSE IF item.kind = "object"
  THEN (IF Truthy(item, "text")
        THEN << WithMessageId([type |-> "token", content |-> item.text], aiMessage) >>
        ELSE << >>)
       \o
       (IF Has(item, "functionCall")
        THEN << WithMessageId(
                  [type |-> "tool_call",
                   toolCall |-> [name |-> item.functionCall.name,
                                 args |-> item.functionCall.args,
                                 id |-> IF Truthy(aiMessage, "id") THEN aiMessage.id
                                        ELSE TimeStr(t),
                                 type |-> << "tool_call" >>]],
                  aiMessage) >>
        ELSE << >>)
  ELSE << >>

\* for (const item of content)
RECURSIVE ArrayContentChunks(_, _, _)
ArrayContentChunks(items, aiMessage, t) ==
  IF items = << >> THEN << >>
  ELSE ItemChunks(Head(items), aiMessage, t) \o ArrayContentChunks(Tail(items), aiMessage, t)

ContentChunks(aiMessage, t) ==
  IF aiMessage.content.kind = "string" THEN StringContentChunks(aiMessage)
  ELSE IF aiMessage.content.kind = "array"
       THEN ArrayContentChunks(aiMessage.content.items, aiMessage, t)
  ELSE << >>

\* tool_calls handled only for a message that has text
ToolCallsChunksNeedContent(aiMessage) ==
  IF /\ Has(aiMessage, "tool_calls") /\ Len(aiMessage.tool_calls) > 0
     /\ aiMessage.content # JStr(<< >>)
  THEN [i \in 1..Len(aiMessage.tool_calls) |->
          WithMessageId([type |-> "tool_call", toolCall |-> aiMessage.tool_calls[i]], aiMessage)]
  ELSE << >>

\* for (const toolCall of aiMessage.tool_calls)
ToolCallsChunks(aiMessage) ==
  IF Has(aiMessage, "tool_calls") /\ Len(aiMessage.tool_calls) > 0
  THEN [i \in 1..Len(aiMessage.tool_calls) |->
          WithMessageId([type |-> "tool_call", toolCall |-> aiMessage.tool_calls[i]], aiMessage)]
  ELSE << >>

\* A message whose tool_calls chunks are yielded before its content chunks
AIMessageChunksToolCallsFirst(aiMessage, t) ==
  ToolCallsChunks(aiMessage) \o ContentChunks(aiMessage, t)

\* if (constructorName === "AIMessageChunk")
AIMessageChunks(aiMessage, t) ==
  ContentChunks(aiMessage, t) \o ToolCallsChunks(aiMessage)

\* A tool result whose content is always JSON-serialized, strings too
ToolMessageChunksAlwaysStringify(toolMessage) ==
  << WithMessageId(
       [type |-> "tool_result",
        toolResult |-> [name |-> IF Truthy(toolMessage, "name") THEN toolMessage.name
                                 ELSE << "unknown" >>,
                        content |-> JSONStringify(toolMessage.content)]],
       toolMessage) >>

\* if (constructorName === "ToolMessage")
ToolMessageChunks(toolMessage) ==
  << WithMessageId(
       [type |-> "tool_result",
        toolResult |-> [name |-> IF Truthy(toolMessage, "name") THEN toolMessage.name
                                 ELSE << "unknown" >>,
                        content |-> IF toolMessage.content.kind = "string"
                                    THEN toolMessage.content.v
                                    ELSE JSONStringify(toolMessage.content)]],
       toolMessage) >>

\* (message as any)?.constructor?.name
ConstructorName(message) == IF message.kind = "message" THEN message.ctor ELSE "Object"

\* A loop body that classifies the payload of a 2-element event whatever its mode
ClassifyEventAnyMode(chunk, t) ==
  IF Falsy(chunk) THEN << >>
  ELSE IF chunk.kind = "array" /\ Len(chunk.items) = 2
  THEN LET chunkData == chunk.items[2]
       IN  IF chunkData.kind = "array" /\ Len(chunkData.items) >= 1
           THEN LET message == chunkData.items[1]
                IN  IF Falsy(message) THEN << >>
                    ELSE (IF ConstructorName(message) = "AIMessageChunk"
                          THEN AIMessageChunks(message, t) ELSE << >>)
                         \o
                         (IF ConstructorName(message) = "ToolMessage"
                          THEN ToolMessageChunks(message) ELSE << >>)
           ELSE << >>
  ELSE << >>

\* The body of the for-await loop of tokenGenerator for one engine event
ClassifyEvent(chunk, t) ==
  IF Falsy(chunk) THEN << >>
  ELSE IF chunk.kind = "array" /\ Len(chunk.items) = 2
  THEN LET chunkType == chunk.items[1]
           chunkData == chunk.items[2]
       IN  IF /\ chunkType.kind = "string" /\ chunkType.v = << "messages" >>
              /\ chunkData.kind = "array" /\ Len(chunkData.items) >= 1
           THEN LET message == chunkData.items[1]
                IN  IF Falsy(message) THEN << >>
                    ELSE (IF ConstructorName(message) = "AIMessageChunk"
                          THEN AIMessageChunks(message, t) ELSE << >>)
                         \o
                         (IF ConstructorName(message) = "ToolMessage"
                          THEN ToolMessageChunks(message) ELSE << >>)
           ELSE << >>
  ELSE << >>

-----------------------------------------------------------------------------
(* Engine events handed to the classifier *)

SearchArgs == JObj(<< [k |-> << "q" >>, v |-> JStr(<< "x" >>)] >>)

SearchFunctionCall == [name |-> << "search" >>, args |-> SearchArgs]

\* Items of an array content: strings, text items, functionCall items, others
LookupFunctionCall ==
  [name |-> << "lookup" >>, args |-> JObj(<< [k |-> << "k" >>, v |-> JNum(1)] >>)]

ContentItems ==
  { JStr(<< "a" >>), JStr(<< >>),
    [kind |-> "object", functionCall |-> LookupFunctionCall],
    [kind |-> "object", text |-> << "t" >>],
    [kind |-> "object", text |-> << >>],
    [kind |-> "object", functionCall |-> SearchFunctionCall],
    [kind |-> "object", text |-> << "t" >>, functionCall |-> SearchFunctionCall],
    [kind |-> "object", thoughtSignature |-> << "s" >>],
    JNull, JNum(7) }

SpecialText == << "a", "\n", "\t", "\"", "\\", "U+00E9" >>

AIContents ==
  { JStr(<< >>), JStr(<< "H", "i" >>), JStr(SpecialText) }
    \cup { JArr(<< >>) }
    \cup { JArr(<< i >>) : i \in ContentItems }
    \cup { JArr(<< i, j >>) : i, j \in ContentItems }

ToolCallLists ==
  { << >>, << SearchCall(<< "c1" >>) >>, << SearchCall(<< "c1" >>), SearchCall(<< "c2" >>) >> }

AIMessageChunkValues ==
  LET base == { [kind |-> "message", ctor |-> "AIMessageChunk", content |-> c] : c \in AIContents }
      withId == base \cup { WithField(m, "id", << "m1" >>) : m \in base }
  IN  withId \cup { WithField(m, "tool_calls", tc) : m \in withId, tc \in ToolCallLists }

ToolContents ==
  { JStr(<< "r" >>), JStr(<< >>), JStr(SpecialText),
    JArr(<< JNum(1), JStr(<< "x" >>) >>),
    JObj(<< [k |-> << "status" >>, v |-> JStr(<< "ok" >>)], [k |-> << "n" >>, v |-> JNull] >>),
    JNum(3) }

ToolMessageValues ==
  LET base == { [kind |-> "message", ctor |-> "ToolMessage", content |-> c] : c \in ToolContents }
      named == base \cup { WithField(m, "name", n) : m \in base, n \in { << "search" >>, << >> } }
  IN  named \cup { WithField(m, "id", << "t1" >>) : m \in named }

Metadata == JObj(<< >>)

\* ["messages", [message, metadata]]
MessagesEvent(message) == JArr(<< JStr(<< "messages" >>), JArr(<< message, Metadata >>) >>)

\* ["messages", [message]]
MessagesEvent1(message) == JArr(<< JStr(<< "messages" >>), JArr(<< message >>) >>)

OtherMessage == [kind |-> "message", ctor |-> "HumanMessage", content |-> JStr(<< "x" >>)]

HiChunk == [kind |-> "message", ctor |-> "AIMessageChunk", content |-> JStr(<< "H", "i" >>),
            id |-> << "m1" >>]

\* Events the classifier has no chunk for
UnhandledEvents ==
  { JNull, JStr(<< "string" >>), JNum(123), JObj(<< >>),
    JArr(<< JStr(<< "messages" >>) >>),
    JArr(<< JStr(<< "messages" >>), JArr(<< HiChunk, Metadata >>), Metadata >>),
    JArr(<< JStr(<< "updates" >>), JArr(<< HiChunk, Metadata >>) >>),
    JArr(<< JStr(<< "messages" >>), JStr(<< "not-array" >>) >>),
    JArr(<< JStr(<< "messages" >>), JArr(<< >>) >>),
    MessagesEvent(JNull),
    MessagesEvent(OtherMessage) }

ClsEvents ==
  { MessagesEvent(m) : m \in AIMessageChunkValues \cup ToolMessageValues }
    \cup { MessagesEvent1(HiChunk) }
    \cup { MessagesEvent1(m) : m \in ToolMessageValues }
    \cup UnhandledEvents

-----------------------------------------------------------------------------
(* The classifier alone: one event in, its chunks out *)

ClsClassify ==
  /\ ~clsDone
  /\ clsOut' = ClassifyEvent(clsIn, now)
  /\ clsDone' = TRUE
  /\ UNCHANGED << clsIn, genIn, genOut, corsVars, setupVars, now, accVars, encVars, cliVars >>

ClsInit ==
  /\ InitAcc
  /\ InitEncIdle
  /\ InitCliIdle
  /\ clsIn \in ClsEvents
  /\ clsOut = << >>
  /\ clsDone = FALSE
  /\ InitGenIdle
  /\ InitCorsIdle /\ InitSetupIdle

ClsNext == Tick \/ ClsClassify

SpecCls == ClsInit /\ [][ClsNext]_vars

\* A "messages" event whose payload has a first element that is not falsy
IsMessagesEvent(e) ==
  /\ e.kind = "array" /\ Len(e.items) = 2
  /\ e.items[1].kind = "string" /\ e.items[1].v = << "messages" >>
  /\ e.items[2].kind = "array" /\ Len(e.items[2].items) >= 1
  /\ ~Falsy(e.items[2].items[1])

MessageOf(e) == e.items[2].items[1]

IsEventOf(e, ctor) ==
  IsMessagesEvent(e) /\ MessageOf(e).kind = "message" /\ MessageOf(e).ctor = ctor

\* The chunk carries the message's id as messageId, and none when the message has none
CarriesIdOf(chunk, message) ==
  IF Has(message, "id") THEN Has(chunk, "messageId") /\ chunk.messageId = message.id
  ELSE ~Has(chunk, "messageId")

-----------------------------------------------------------------------------
(* Claims about the classifier *)

\* C6: an AIMessageChunk with string content and no tool calls yields exactly one token
\* chunk with the string verbatim and the message's id when the string is non-empty, and
\* no chunk at all when it is empty.
C6_StringContent ==
  (/\ clsDone
   /\ IsEventOf(clsIn, "AIMessageChunk")
   /\ MessageOf(clsIn).content.kind = "string"
   /\ (Has(MessageOf(clsIn), "tool_calls") => MessageOf(clsIn).tool_calls = << >>))
  => IF MessageOf(clsIn).content.v # << >>
     THEN /\ Len(clsOut) = 1
          /\ clsOut[1].type = "token"
          /\ DOMAIN clsOut[1] \subseteq {"type", "content", "messageId"}
          /\ clsOut[1].content = MessageOf(clsIn).content.v
          /\ CarriesIdOf(clsOut[1], MessageOf(clsIn))
     ELSE clsOut = << >>

C6_Witness ==
  /\ clsDone
  /\ IsEventOf(clsIn, "AIMessageChunk")
  /\ MessageOf(clsIn).content = JStr(SpecialText)
  /\ Has(MessageOf(clsIn), "tool_calls") /\ MessageOf(clsIn).tool_calls = << >>
  /\ clsOut = << [type |-> "token", content |-> SpecialText, messageId |-> << "m1" >>] >>

\* C7: a ToolMessage yields exactly one tool_result chunk; its name is the message's name,
\* or "unknown" when the message has none (an empty name counts as none, as for `||`);
\* its content is the message content verbatim when a string, else its JSON serialization.
C7_ToolResult ==
  (clsDone /\ IsEventOf(clsIn, "ToolMessage"))
  => /\ Len(clsOut) = 1
     /\ clsOut[1].type = "tool_result"
     /\ clsOut[1].toolResult.name
          = (IF Truthy(MessageOf(clsIn), "name") THEN MessageOf(clsIn).name ELSE << "unknown" >>)
     /\ clsOut[1].toolResult.content
          = (IF MessageOf(clsIn).content.kind = "string" THEN MessageOf(clsIn).content.v
             ELSE JSONStringify(MessageOf(clsIn).content))

C7_Witness ==
  /\ clsDone
  /\ IsEventOf(clsIn, "ToolMessage")
  /\ ~Has(MessageOf(clsIn), "name")
  /\ MessageOf(clsIn).content = JArr(<< JNum(1), JStr(<< "x" >>) >>)
  /\ Len(clsOut) = 1
  /\ clsOut[1].toolResult = [name |-> << "unknown" >>,
                             content |-> << "[", "1", ",", "\"", "x", "\"", "]" >>]

\* What the claim says one content item gives: the kind and payload of each chunk
ItemGives(item) ==
  IF item.kind = "string"
  THEN (IF item.v # << >> THEN << [type |-> "token", payload |-> item.v] >> ELSE << >>)
  ELSE IF item.kind = "object"
  THEN (IF Truthy(item, "text") THEN << [type |-> "token", payload |-> item.text] >> ELSE << >>)
       \o (IF Has(item, "functionCall")
           THEN << [type |-> "tool_call",
                     payload |-> << item.functionCall.name, item.functionCall.args >>] >>
           ELSE << >>)
  ELSE << >>

ContentGives(content) ==
  IF content.kind = "string" THEN ItemGives(content)
  ELSE Concat([i \in 1..Len(content.items) |-> ItemGives(content.items[i])])

KindAndPayload(chunk) ==
  [type |-> chunk.type,
   payload |-> IF chunk.type = "token" THEN chunk.content
               ELSE << chunk.toolCall.name, chunk.toolCall.args >>]

\* C8: the chunks of one AIMessageChunk event are the content-derived chunks in content
\* item order, followed by exactly one tool_call chunk per entry of tool_calls, in order.
C8_ContentBeforeToolCalls ==
  (clsDone /\ IsEventOf(clsIn, "AIMessageChunk"))
  => LET message == MessageOf(clsIn)
         calls == IF Has(message, "tool_calls") THEN message.tool_calls ELSE << >>
         k == Len(clsOut) - Len(calls)
     IN  /\ k >= 0
         /\ [i \in 1..k |-> KindAndPayload(clsOut[i])] = ContentGives(message.content)
         /\ \A j \in 1..Len(calls) :
               /\ clsOut[k + j].type = "tool_call"
               /\ clsOut[k + j].toolCall = calls[j]

C8_Witness ==
  /\ clsDone
  /\ IsEventOf(clsIn, "AIMessageChunk")
  /\ MessageOf(clsIn).content.kind = "array"
  /\ Has(MessageOf(clsIn), "tool_calls")
  /\ [i \in 1..Len(clsOut) |-> clsOut[i].type]
       = << "tool_call", "token", "tool_call", "tool_call" >>
  /\ clsOut[3].toolCall.id = << "c1" >> /\ clsOut[4].toolCall.id = << "c2" >>

-----------------------------------------------------------------------------
(* TokenStreamEncoder: the GET route of /api/agent/stream *)

DataPrefix == << "d", "a", "t", "a", ":", " " >>
EventPrefix == << "e", "v", "e", "n", "t", ":", " " >>
NL == << "\n" >>

\* ": connected\n\n"
ConnectedComment == << ":", " ", "connected" >> \o NL \o NL

\* "event: done\n" and "event: error\n"
EventLine(name) == EventPrefix \o << name >> \o NL

ToolCallValue(tc) ==
  JObj(<< [k |-> << "name" >>, v |-> JStr(tc.name)],
          [k |-> << "args" >>, v |-> tc.args],
          [k |-> << "id" >>, v |-> JStr(tc.id)],
          [k |-> << "type" >>, v |-> JStr(tc.type)] >>)

ToolResultValue(tr) ==
  JObj(<< [k |-> << "name" >>, v |-> JStr(tr.name)],
          [k |-> << "content" >>, v |-> JStr(tr.content)] >>)

\* A StreamChunk as the object JSON.stringify sees: own properties in insertion order,
\* undefined properties left out
ChunkValue(data) ==
  JObj(<< [k |-> << "type" >>, v |-> JStr(<< data.type >>)] >>
       \o (IF Has(data, "content")
           THEN << [k |-> << "content" >>, v |-> JStr(data.content)] >> ELSE << >>)
       \o (IF Has(data, "toolCall")
           THEN << [k |-> << "toolCall" >>, v |-> ToolCallValue(data.toolCall)] >> ELSE << >>)
       \o (IF Has(data, "toolResult")
           THEN << [k |-> << "toolResult" >>, v |-> ToolResultValue(data.toolResult)] >>
           ELSE << >>)
       \o (IF Has(data, "error")
           THEN << [k |-> << "error" >>, v |-> JStr(data.error)] >> ELSE << >>)
       \o (IF Has(data, "messageId")
           THEN << [k |-> << "messageId" >>, v |-> JStr(data.messageId)] >> ELSE << >>))

\* `data: ${JSON.stringify(data)}\n\n`
DataFrame(value) == DataPrefix \o JSONStringify(value) \o NL \o NL

\* send(data)
Frame(data) == DataFrame(ChunkValue(data))

ThreadId == << "th1" >>

\* (err as Error)?.message || "Stream error"
ErrorMessage(err) == IF Truthy(err, "message") THEN err.message ELSE << "Stream error" >>

\* What the done path enqueues
DoneFrames == << Frame(DoneChunk), EventLine("done"), DataFrame(JObj(<< >>)) >>

\* What the catch block enqueues
ErrorFrames(err) ==
  << Frame([type |-> "error", error |-> ErrorMessage(err)]),
     EventLine("error"),
     DataFrame(JObj(<< [k |-> << "message" >>, v |-> JStr(ErrorMessage(err))],
                       [k |-> << "threadId" >>, v |-> JStr(ThreadId)] >>)) >>

\* Failures of the engine or of the service
Errors == { [message |-> << "boom" >>], [message |-> << >>] }

\* Engine events of a request
TextChunk(text) == [kind |-> "message", ctor |-> "AIMessageChunk", content |-> JStr(text),
                    tool_calls |-> << >>]

ToolCallsChunk == [kind |-> "message", ctor |-> "AIMessageChunk", content |-> JStr(<< >>),
                   tool_calls |-> << SearchCall(<< "c1" >>) >>, id |-> << "m1" >>]

MixedChunk == [kind |-> "message", ctor |-> "AIMessageChunk",
               content |-> JArr(<< [kind |-> "object", text |-> << "t" >>],
                                   [kind |-> "object", functionCall |-> SearchFunctionCall] >>),
               tool_calls |-> << SearchCall(<< "c2" >>) >>, id |-> << "m2" >>]

ToolResultMessage == [kind |-> "message", ctor |-> "ToolMessage", name |-> << "search" >>,
                      content |-> JStr(<< "r" >>), id |-> << "t1" >>]

EngineEvents ==
  { MessagesEvent(WithField(TextChunk(<< "H", "i" >>), "id", << "m1" >>)),
    MessagesEvent(MixedChunk),
    MessagesEvent(ToolResultMessage),
    JArr(<< JStr(<< "updates" >>), JArr(<< HiChunk, Metadata >>) >>) }

\* start(controller): the connected comment, then the background drain begins
EncStart ==
  /\ encPc = "idle"
  /\ wire' = Append(wire, ConnectedComment)
  /\ encPc' = "opening"
  /\ UNCHANGED << cancelled, events, pending, sent, pulledAt, rd, now, accVars, clsVars, corsVars, setupVars, cliVars >>

\* await streamResponse(...) returns the generator
EncOpen ==
  /\ encPc = "opening"
  /\ encPc' = "draining"
  /\ UNCHANGED << cancelled, events, pending, sent, wire, pulledAt, rd, now, accVars, clsVars, corsVars, setupVars, cliVars >>

\* The events of the end-to-end request: text, a tool call, its result, text again
PipeEvents ==
  { MessagesEvent(WithField(TextChunk(<< "H", "i" >>), "id", << "m1" >>)),
    MessagesEvent(TextChunk(<< "D" >>)),
    MessagesEvent(ToolCallsChunk),
    MessagesEvent(ToolResultMessage) }

\* A generator that takes the next engine event while chunks of the last one are unsent
PullFromBuffering(source) ==
  /\ encPc = "draining"
  /\ Len(events) < MaxEvents
  /\ \E e \in source :
        /\ events' = Append(events, [ev |-> e, t |-> now])
        /\ pending' = pending \o ClassifyEvent(e, now)
  /\ pulledAt' = Append(pulledAt, Len(wire))
  /\ UNCHANGED << encPc, cancelled, sent, wire, rd, now, accVars, clsVars, corsVars, setupVars, cliVars >>

\* The generator takes the next engine event and classifies it
PullFrom(source) ==
  /\ encPc = "draining"
  /\ pending = << >>
  /\ Len(events) < MaxEvents
  /\ \E e \in source :
        /\ events' = Append(events, [ev |-> e, t |-> now])
        /\ pending' = ClassifyEvent(e, now)
  /\ pulledAt' = Append(pulledAt, Len(wire))
  /\ UNCHANGED << encPc, cancelled, sent, wire, rd, now, accVars, clsVars, corsVars, setupVars, cliVars >>

EncPull == PullFrom(EngineEvents)

PipePull == PullFrom(PipeEvents)

\* A catch block that reports the failure and lets the drain go on
CatchAndResume(err) ==
  IF cancelled
  THEN /\ encPc' = "crashed"
       /\ UNCHANGED << wire, sent >>
  ELSE /\ wire' = wire \o ErrorFrames(err)
       /\ sent' = Append(sent, [type |-> "error", error |-> ErrorMessage(err)])
       /\ encPc' = "draining"

\* The catch block and the finally block; enqueue and close throw once the stream is
\* no longer readable
CatchAndClose(err) ==
  IF cancelled
  THEN /\ encPc' = "crashed"
       /\ UNCHANGED << wire, sent >>
  ELSE /\ wire' = wire \o ErrorFrames(err)
       /\ sent' = Append(sent, [type |-> "error", error |-> ErrorMessage(err)])
       /\ encPc' = "closed"

EnqueueError == [message |-> << "Invalid state: Controller is already closed" >>]

\* for await (const chunk of iterable) send(chunk)
EncSend ==
  /\ encPc = "draining"
  /\ pending # << >>
  /\ pending' = Tail(pending)
  /\ IF cancelled
     THEN CatchAndClose(EnqueueError)
     ELSE /\ wire' = Append(wire, Frame(Head(pending)))
          /\ sent' = Append(sent, Head(pending))
          /\ encPc' = encPc
  /\ UNCHANGED << cancelled, events, pulledAt, rd, now, accVars, clsVars, corsVars, setupVars, cliVars >>

\* A done path that sends the done chunk and closes without the named event
EncDoneNoMarker ==
  /\ encPc = "draining"
  /\ pending = << >>
  /\ IF cancelled
     THEN CatchAndClose(EnqueueError)
     ELSE /\ wire' = Append(wire, Frame(DoneChunk))
          /\ sent' = Append(sent, DoneChunk)
          /\ encPc' = "closed"
  /\ UNCHANGED << cancelled, events, pending, pulledAt, rd, now, accVars, clsVars, corsVars, setupVars, cliVars >>

\* A done path that is followed by no close: the drain goes on
EncDoneStaysOpen ==
  /\ encPc = "draining"
  /\ pending = << >>
  /\ wire' = wire \o DoneFrames
  /\ sent' = Append(sent, DoneChunk)
  /\ UNCHANGED << encPc, cancelled, events, pending, pulledAt, rd, now, accVars, clsVars, corsVars, setupVars, cliVars >>

\* The event sequence is exhausted: the done chunk and the done event
EncDone ==
  /\ encPc = "draining"
  /\ pending = << >>
  /\ IF cancelled
     THEN CatchAndClose(EnqueueError)
     ELSE /\ wire' = wire \o DoneFrames
          /\ sent' = Append(sent, DoneChunk)
          /\ encPc' = "closed"
  /\ UNCHANGED << cancelled, events, pending, pulledAt, rd, now, accVars, clsVars, corsVars, setupVars, cliVars >>

\* A route that awaits streamResponse outside its try block: a failure while opening
\* closes the stream without reporting it
EncFailOpeningUnreported ==
  /\ \/ encPc = "opening"
     \/ encPc = "draining" /\ pending = << >>
  /\ IF encPc = "opening"
     THEN /\ encPc' = IF cancelled THEN "crashed" ELSE "closed"
          /\ UNCHANGED << wire, sent >>
     ELSE \E err \in Errors : CatchAndClose(err)
  /\ UNCHANGED << cancelled, events, pending, pulledAt, rd, now, accVars, clsVars, corsVars, setupVars, cliVars >>

\* streamResponse rejects, or the engine's iterator throws
EncFail ==
  /\ \/ encPc = "opening"
     \/ encPc = "draining" /\ pending = << >>
  /\ \E err \in Errors : CatchAndClose(err)
  /\ UNCHANGED << cancelled, events, pending, pulledAt, rd, now, accVars, clsVars, corsVars, setupVars, cliVars >>

\* cancel(): the client went away
ClientCancel ==
  /\ encPc \in {"opening", "draining"}
  /\ ~cancelled
  /\ cancelled' = TRUE
  /\ UNCHANGED << encPc, events, pending, sent, wire, pulledAt, rd, now, accVars, clsVars, corsVars, setupVars, cliVars >>

IsPrefixOf(p, s) == Len(p) <= Len(s) /\ SubSeq(s, 1, Len(p)) = p

\* line.slice(6) of the line that ends at the first "\n" of the entry
JsonStrOf(entry) == SubSeq(entry, Len(DataPrefix) + 1, Len(entry) - 2)

\* The outcome of a parse that throws SyntaxError
SyntaxError == [ok |-> FALSE]

Parsed(v, next) == [ok |-> TRUE, v |-> v, next |-> next]

Numbers == 0..200

IsNumberAtom(a) == \E n \in Numbers : ToString(n) = a

NumberOf(a) == CHOOSE n \in Numbers : ToString(n) = a

\* The characters of a JSON string from position i up to its closing quote
RECURSIVE ParseString(_, _, _)
ParseString(text, i, acc) ==
  IF i > Len(text) THEN SyntaxError
  ELSE IF text[i] = "\"" THEN Parsed(JStr(acc), i + 1)
  ELSE IF text[i] = "\\"
       THEN IF i + 1 > Len(text) THEN SyntaxError
            ELSE CASE text[i + 1] = "\"" -> ParseString(text, i + 2, Append(acc, "\""))
                   [] text[i + 1] = "\\" -> ParseString(text, i + 2, Append(acc, "\\"))
                   [] text[i + 1] = "n" -> ParseString(text, i + 2, Append(acc, "\n"))
                   [] text[i + 1] = "t" -> ParseString(text, i + 2, Append(acc, "\t"))
                   [] OTHER -> SyntaxError
  ELSE IF text[i] \in {"\n", "\t"} THEN SyntaxError
  ELSE ParseString(text, i + 1, Append(acc, text[i]))

RECURSIVE ParseValue(_, _)
RECURSIVE ParseItems(_, _, _)
RECURSIVE ParseEntries(_, _, _)

\* The JSON value that starts at position i
ParseValue(text, i) ==
  IF i > Len(text) THEN SyntaxError
  ELSE CASE text[i] = "\"" -> ParseString(text, i + 1, << >>)
         [] text[i] = "null" -> Parsed(JNull, i + 1)
         [] text[i] = "[" ->
              IF i + 1 <= Len(text) /\ text[i + 1] = "]"
              THEN Parsed(JArr(<< >>), i + 2)
              ELSE ParseItems(text, i + 1, << >>)
         [] text[i] = "{" ->
              IF i + 1 <= Len(text) /\ text[i + 1] = "}"
              THEN Parsed(JObj(<< >>), i + 2)
              ELSE ParseEntries(text, i + 1, << >>)
         [] OTHER ->
              IF IsNumberAtom(text[i]) THEN Parsed(JNum(NumberOf(text[i])), i + 1)
              ELSE SyntaxError

\* The elements of an array from position i, after "[" or ","
ParseItems(text, i, acc) ==
  LET r == ParseValue(text, i)
  IN  IF ~r.ok \/ r.next > Len(text) THEN SyntaxError
      ELSE IF text[r.next] = "," THEN ParseItems(text, r.next + 1, Append(acc, r.v))
      ELSE IF text[r.next] = "]" THEN Parsed(JArr(Append(acc, r.v)), r.next + 1)
      ELSE SyntaxError

\* The members of an object from position i, after "{" or ","
ParseEntries(text, i, acc) ==
  IF i > Len(text) \/ text[i] # "\"" THEN SyntaxError
  ELSE LET k == ParseString(text, i + 1, << >>)
       IN  IF ~k.ok \/ k.next > Len(text) \/ text[k.next] # ":" THEN SyntaxError
           ELSE LET r == ParseValue(text, k.next + 1)
                    entry == [k |-> k.v.v, v |-> r.v]
                IN  IF ~r.ok \/ r.next > Len(text) THEN SyntaxError
                    ELSE IF text[r.next] = ","
                         THEN ParseEntries(text, r.next + 1, Append(acc, entry))
                    ELSE IF text[r.next] = "}"
                         THEN Parsed(JObj(Append(acc, entry)), r.next + 1)
                    ELSE SyntaxError

\* The whole text is one JSON value (the texts here carry no insignificant white space)
ParseText(text) ==
  LET r == ParseValue(text, 1)
  IN  IF r.ok /\ r.next = Len(text) + 1 THEN r ELSE SyntaxError

KeyName(k) == IF Len(k) = 1 THEN k[1] ELSE "?"

KeysOf(obj) == { KeyName(obj.entries[i].k) : i \in 1..Len(obj.entries) }

\* The value of a property: the last member with that name
ValueAt(obj, f) ==
  LET at == { i \in 1..Len(obj.entries) : KeyName(obj.entries[i].k) = f }
  IN  obj.entries[CHOOSE i \in at : \A j \in at : j <= i].v

\* A tool call or a tool result as the client holds it: strings as text, args as parsed
NestedObject(obj) ==
  [f \in KeysOf(obj) |->
     IF ValueAt(obj, f).kind = "string" THEN ValueAt(obj, f).v ELSE ValueAt(obj, f)]

\* A parsed object as the StreamChunk the client holds
ChunkObject(obj) ==
  [f \in KeysOf(obj) |->
     LET x == ValueAt(obj, f)
     IN  IF f = "type"
         THEN IF x.kind = "string" /\ Len(x.v) = 1 THEN x.v[1] ELSE "?"
         ELSE IF x.kind = "string" THEN x.v
         ELSE IF x.kind = "object" /\ f \in {"toolCall", "toolResult"} THEN NestedObject(x)
         ELSE x]

\* JSON.parse(jsonStr) as StreamChunk: SyntaxError, or the value; an object becomes the
\* chunk record, any other value has no "type"
JSONParse(jsonStr) ==
  LET r == ParseText(jsonStr)
  IN  IF ~r.ok THEN SyntaxError
      ELSE IF r.v.kind = "object" THEN [ok |-> TRUE, v |-> ChunkObject(r.v)]
      ELSE [ok |-> TRUE, v |-> r.v]

\* text.split("\n"): the segments between the line feeds
Split(text) ==
  LET feeds == { i \in 1..Len(text) : text[i] = "\n" }
      Feed(k) == IF k = 0 THEN 0
                 ELSE IF k > Cardinality(feeds) THEN Len(text) + 1
                 ELSE CHOOSE i \in feeds : Cardinality({ j \in feeds : j <= i }) = k
  IN  [k \in 1..(Cardinality(feeds) + 1) |-> SubSeq(text, Feed(k - 1) + 1, Feed(k) - 1)]

\* A loop body that shows the named error event as a message of its own
ProcessLineEventAppends(rs, line, t) ==
  IF line = << >> \/ line[1] = ":" THEN rs
  ELSE IF IsPrefixOf(DataPrefix, line)
       THEN LET jsonStr == SubSeq(line, Len(DataPrefix) + 1, Len(line))
            IN  IF jsonStr = << >> \/ jsonStr = << "{", "}" >> THEN rs
                ELSE IF JSONParse(jsonStr).ok
                     THEN [st |-> processStreamChunk(rs.st, JSONParse(jsonStr).v, t),
                           handed |-> Append(rs.handed, JSONParse(jsonStr).v)]
                     ELSE rs
  ELSE IF IsPrefixOf(EventPrefix \o << "done" >>, line)
       THEN [rs EXCEPT !.st = DoneCase(@)]
  ELSE IF IsPrefixOf(EventPrefix \o << "error" >>, line)
       THEN [rs EXCEPT !.st = ErrorCase(@, [type |-> "error"], t)]
  ELSE rs

\* A loop body that reports a payload it cannot parse as an error of the session
ProcessLineSurfacing(rs, line, t) ==
  IF line = << >> \/ line[1] = ":" THEN rs
  ELSE IF IsPrefixOf(DataPrefix, line)
       THEN LET jsonStr == SubSeq(line, Len(DataPrefix) + 1, Len(line))
            IN  IF JSONParse(jsonStr).ok
                THEN [st |-> processStreamChunk(rs.st, JSONParse(jsonStr).v, t),
                      handed |-> Append(rs.handed, JSONParse(jsonStr).v)]
                ELSE [rs EXCEPT !.st = ErrorCase(@, [type |-> "error"], t)]
  ELSE IF \/ IsPrefixOf(EventPrefix \o << "done" >>, line)
          \/ IsPrefixOf(EventPrefix \o << "error" >>, line)
       THEN [rs EXCEPT !.st = DoneCase(@)]
  ELSE rs

\* The body of `for (const line of lines)`: comments and empty lines are skipped, a data
\* line is parsed and handed to processStreamChunk unless its payload is empty or "{}"
\* (what JSON.parse or processStreamChunk throws is swallowed), an event line resets
ProcessLine(rs, line, t) ==
  IF line = << >> \/ line[1] = ":" THEN rs
  ELSE IF IsPrefixOf(DataPrefix, line)
       THEN LET jsonStr == SubSeq(line, Len(DataPrefix) + 1, Len(line))
            IN  IF jsonStr = << >> \/ jsonStr = << "{", "}" >> THEN rs
                ELSE IF JSONParse(jsonStr).ok
                     THEN [st |-> processStreamChunk(rs.st, JSONParse(jsonStr).v, t),
                           handed |-> Append(rs.handed, JSONParse(jsonStr).v)]
                     ELSE rs
  ELSE IF \/ IsPrefixOf(EventPrefix \o << "done" >>, line)
          \/ IsPrefixOf(EventPrefix \o << "error" >>, line)
       THEN [rs EXCEPT !.st = DoneCase(@)]
  ELSE rs

RECURSIVE ProcessLines(_, _, _)
ProcessLines(rs, lines, t) ==
  IF lines = << >> THEN rs
  ELSE ProcessLines(ProcessLine(rs, Head(lines), t), Tail(lines), t)

\* A read that forgets the incomplete last segment instead of keeping it
ReadStepNoCarry(st, buf, value, t) ==
  LET segs == Split(buf \o value)
      rs == ProcessLines([st |-> st, handed |-> << >>], SubSeq(segs, 1, Len(segs) - 1), t)
  IN  [st |-> rs.st, handed |-> rs.handed, buffer |-> << >>,
       lines |-> SubSeq(segs, 1, Len(segs) - 1)]

\* A read that also processes the text after the last line feed
ReadStepFlushes(st, buf, value, t) ==
  LET segs == Split(buf \o value)
      rs == ProcessLines([st |-> st, handed |-> << >>], segs, t)
  IN  [st |-> rs.st, handed |-> rs.handed, buffer |-> << >>, lines |-> segs]

\* One iteration of the read loop on the decoded text of a read (the decoder is in stream
\* mode, so a piece of text is never cut inside a character): buffer += value, the
\* complete lines are processed, the last segment is kept; lines is the history of the
\* lines the for loop went through
ReadStep(st, buf, value, t) ==
  LET segs == Split(buf \o value)
      rs == ProcessLines([st |-> st, handed |-> << >>], SubSeq(segs, 1, Len(segs) - 1), t)
  IN  [st |-> rs.st, handed |-> rs.handed, buffer |-> segs[Len(segs)],
       lines |-> SubSeq(segs, 1, Len(segs) - 1)]

\* The client reads the next entry of the response
PipeApply ==
  /\ rd < Len(wire)
  /\ abortControllerRef # 0
  /\ rd' = rd + 1
  /\ LET r == ReadStep(AccState, sessions[abortControllerRef].buffer, wire[rd + 1], now)
     IN  /\ SetAccState(r.st)
         /\ trace' = trace \o r.handed
         /\ sessions' = [sessions EXCEPT ![abortControllerRef] =
                            [@ EXCEPT !.phase = "reading", !.buffer = r.buffer]]
  /\ UNCHANGED << started, now, encPc, cancelled, events, pending, sent, wire, pulledAt,
                  clsVars, corsVars, setupVars, abortControllerRef, sendError, unmounted, script >>

\* The request reaches the route once the client has issued it
PipeStart == started /\ EncStart

EncInit == InitAcc /\ InitEncIdle /\ InitClsIdle /\ InitCorsIdle /\ InitSetupIdle /\ InitCliIdle

EncNext ==
  \/ Tick
  \/ EncStart
  \/ EncOpen
  \/ EncPull
  \/ EncSend
  \/ EncDone
  \/ EncFail
  \/ ClientCancel

\* The route alone, under any engine, with a client that may go away
SpecEnc == EncInit /\ [][EncNext]_vars

PipeInit == InitAcc /\ InitEncIdle /\ InitClsIdle /\ InitCorsIdle /\ InitSetupIdle /\ InitCliIdle

PipeNext ==
  \/ StartSend
  \/ PipeStart
  \/ EncOpen
  \/ PipePull
  \/ EncSend
  \/ EncDone
  \/ EncFail
  \/ PipeApply

\* One request end to end: the client sends, the route streams, the client accumulates
SpecPipe == PipeInit /\ [][PipeNext]_vars

-----------------------------------------------------------------------------
(* Reading the wire *)

IsDataEntry(entry) == IsPrefixOf(DataPrefix, entry)

TypeKey == << "{", "\"", "type", "\"", ":", "\"" >>

\* The "type" of the chunk a data entry carries, "" when it carries none
ChunkTypeOfEntry(entry) ==
  IF IsPrefixOf(DataPrefix \o TypeKey, entry) /\ Len(entry) > Len(DataPrefix \o TypeKey)
  THEN entry[Len(DataPrefix \o TypeKey) + 1]
  ELSE ""

IsChunkEntry(entry, types) == IsDataEntry(entry) /\ ChunkTypeOfEntry(entry) \in types

EndsWithBlankLine(entry) ==
  Len(entry) >= 2 /\ entry[Len(entry)] = "\n" /\ entry[Len(entry) - 1] = "\n"

\* The chunks of the events pulled so far, in the engine's order
AllChunks(evs) == Concat([i \in 1..Len(evs) |-> ClassifyEvent(evs[i].ev, evs[i].t)])

\* The entries after the connected comment and before the terminal frames
DataPart ==
  IF encPc = "closed" THEN SubSeq(wire, 2, Len(wire) - 3) ELSE SubSeq(wire, 2, Len(wire))

-----------------------------------------------------------------------------
(* Claims about the encoder and the pipeline *)

\* C9: the data frames between the connected comment and the terminal frames are the
\* classifier's chunks, one "data: <json>\n\n" frame per chunk in the engine's order,
\* none dropped, duplicated or reordered (a prefix of them once the client has gone),
\* and every chunk of an event is on the wire before the next event is pulled.
C9_FramesAreChunks ==
  (wire # << >>) =>
     LET all == AllChunks(events)
         expected == [i \in 1..Len(all) |-> Frame(all[i])]
     IN  /\ Len(DataPart) <= Len(expected)
         /\ DataPart = SubSeq(expected, 1, Len(DataPart))
         /\ encPc # "crashed" => Len(DataPart) = Len(all) - Len(pending)
         /\ \A i \in 1..Len(DataPart) :
               IsDataEntry(DataPart[i]) /\ EndsWithBlankLine(DataPart[i])
         /\ \A i \in 1..Len(events) :
               pulledAt[i] = 1 + Len(AllChunks(SubSeq(events, 1, i - 1)))

C9_Witness ==
  /\ encPc = "closed"
  /\ ~cancelled
  /\ Len(events) = 3
  /\ Len(AllChunks(events)) = 4
  /\ Len(wire) = 8
  /\ \E i \in 1..3 : ClassifyEvent(events[i].ev, events[i].t) = << >>

NonTerminalTypes == {"token", "tool_call", "tool_result"}

DoneTerminal(n) ==
  /\ IsChunkEntry(wire[n - 2], {"done"})
  /\ wire[n - 1] = EventPrefix \o << "done", "\n" >>
  /\ wire[n] = DataPrefix \o << "{", "}", "\n", "\n" >>

ErrorTerminal(n) ==
  /\ IsChunkEntry(wire[n - 2], {"error"})
  /\ wire[n - 1] = EventPrefix \o << "error", "\n" >>
  /\ IsDataEntry(wire[n]) /\ ChunkTypeOfEntry(wire[n]) = ""

\* connected comment, data frames, and the terminal sequence once the route has closed
WireShape ==
  /\ encPc = "idle" <=> wire = << >>
  /\ wire # << >> =>
       /\ wire[1] = << ":", " ", "connected", "\n", "\n" >>
       /\ \A i \in 1..Len(DataPart) : IsChunkEntry(DataPart[i], NonTerminalTypes)
       /\ encPc = "closed" =>
            /\ Len(wire) >= 4
            /\ DoneTerminal(Len(wire)) \/ ErrorTerminal(Len(wire))
            /\ ~(DoneTerminal(Len(wire)) /\ ErrorTerminal(Len(wire)))

NoFrameAfterClose ==
  (encPc \in {"closed", "crashed"} \/ cancelled) => wire' = wire

\* C10: a response is the connected comment first, then data frames of token, tool_call
\* or tool_result chunks, then, when the route closes it, exactly one terminal sequence
\* (done chunk and done event, or error chunk and error event, never both); nothing is
\* written after the terminal sequence or after the stream is closed.
C10_StreamShape == []WireShape /\ [][NoFrameAfterClose]_vars

C10_Witness ==
  /\ encPc = "closed"
  /\ Len(wire) = 7
  /\ ErrorTerminal(7)
  /\ IsChunkEntry(wire[2], {"token"})
  /\ IsChunkEntry(wire[3], {"tool_call"})

IsTextEvent(e) ==
  /\ IsEventOf(e, "AIMessageChunk")
  /\ MessageOf(e).content.kind = "string" /\ MessageOf(e).content.v # << >>
  /\ MessageOf(e).tool_calls = << >>

IsToolCallEvent(e) ==
  /\ IsEventOf(e, "AIMessageChunk")
  /\ MessageOf(e).content = JStr(<< >>)
  /\ Len(MessageOf(e).tool_calls) = 1

\* text, a delta with one tool_calls entry and empty content, a ToolMessage, text
Scenario(evs) ==
  /\ Len(evs) = 4
  /\ IsTextEvent(evs[1].ev)
  /\ IsToolCallEvent(evs[2].ev)
  /\ IsEventOf(evs[3].ev, "ToolMessage")
  /\ IsTextEvent(evs[4].ev)

ScenarioDone ==
  /\ Scenario(events)
  /\ encPc = "closed"
  /\ sent[Len(sent)].type = "done"
  /\ rd = Len(wire)

\* C5: for the engine sequence text, tool call, tool result, text the chunk kinds are
\* token, tool_call, tool_result, token, and the list gets three messages: an ai message
\* with the first text and the tool call, a tool message with the result, and a second
\* ai message with the later text.
C5_EndToEnd ==
  ScenarioDone =>
     /\ TypesOf(sent) = << "token", "tool_call", "tool_result", "token", "done" >>
     /\ TypesOf(messages) = << "human", "ai", "tool", "ai" >>
     /\ messages[2].data.content = MessageOf(events[1].ev).content.v
     /\ ToolCallsOf(messages[2]) = MessageOf(events[2].ev).tool_calls
     /\ messages[3].data.content = MessageOf(events[3].ev).content.v
     /\ messages[3].data.name = MessageOf(events[3].ev).name
     /\ messages[4].data.content = MessageOf(events[4].ev).content.v
     /\ ToolCallsOf(messages[4]) = << >>

C5_Witness ==
  /\ ScenarioDone
  /\ events[1].ev = events[4].ev
  /\ Has(MessageOf(events[1].ev), "id")
  /\ Len(messages) = 4
  /\ messages[2].data.id = messages[4].data.id

-----------------------------------------------------------------------------
(* The terminal paths of the route *)

LastOf(s) == s[Len(s)]

\* A step of the route that writes a chunk of the given type
WritesChunk(type) == Len(sent') = Len(sent) + 1 /\ LastOf(sent').type = type

\* A step in which the drain ends while the client still listens and no failure is reported
DrainEndsWell ==
  /\ encPc = "draining" /\ encPc' # "draining"
  /\ ~cancelled
  /\ ~WritesChunk("error")

DoneChunkFrame ==
  DataPrefix \o << "{", "\"", "type", "\"", ":", "\"", "done", "\"", "}", "\n", "\n" >>

DoneMarkerFrames ==
  << EventPrefix \o << "done", "\n" >>, DataPrefix \o << "{", "}", "\n", "\n" >> >>

DoneStepOk ==
  DrainEndsWell =>
     /\ pending = << >>
     /\ sent' = Append(sent, [type |-> "done"])
     /\ wire' = wire \o << DoneChunkFrame >> \o DoneMarkerFrames
     /\ encPc' = "closed"
     /\ events' = events

\* C11: when the engine's events are exhausted without failure the route writes the frame
\* of the done chunk, then "event: done" with the data line "{}", in that order, and the
\* stream is closed.
C11_DoneTerminal == [][DoneStepOk]_vars

C11_Witness ==
  /\ encPc = "closed"
  /\ ~cancelled
  /\ Len(events) = 2
  /\ Len(wire) >= 6
  /\ LastOf(sent).type = "done"
  /\ SubSeq(wire, Len(wire) - 2, Len(wire)) = << DoneChunkFrame >> \o DoneMarkerFrames

\* The message a failure is reported with: its own, or "Stream error" when it has none
ReportedMessage(err) ==
  IF Has(err, "message") /\ err.message # << >> THEN err.message ELSE << "Stream error" >>

ErrorChunkFrame(msg) ==
  DataPrefix \o << "{", "\"", "type", "\"", ":", "\"", "error", "\"", ",",
                   "\"", "error", "\"", ":", "\"" >> \o msg \o << "\"", "}", "\n", "\n" >>

ErrorMarkerFrames(msg) ==
  << EventPrefix \o << "error", "\n" >>,
     DataPrefix \o << "{", "\"", "message", "\"", ":", "\"" >> \o msg
                \o << "\"", ",", "\"", "threadId", "\"", ":", "\"", "th1", "\"", "}",
                      "\n", "\n" >> >>

FailureStepOk ==
  WritesChunk("error") =>
     \E err \in Errors :
        /\ sent' = Append(sent, [type |-> "error", error |-> ReportedMessage(err)])
        /\ wire' = wire \o << ErrorChunkFrame(ReportedMessage(err)) >>
                        \o ErrorMarkerFrames(ReportedMessage(err))
        /\ encPc' = "closed"
        /\ events' = events

ClosedIsFinal ==
  encPc = "closed" => /\ encPc' = "closed"
                      /\ events' = events
                      /\ wire' = wire
                      /\ sent' = sent

\* C12: a failure of the drain, while the client listens, writes the frame of an error
\* chunk with the failure's message ("Stream error" when it has none), then "event: error"
\* with the data line {message, threadId}, and closes the stream; the frames written
\* before stay, no further engine event is pulled and nothing is written afterwards.
C12_FailureTerminal == [][FailureStepOk /\ ClosedIsFinal]_vars

C12_Witness ==
  /\ encPc = "closed"
  /\ ~cancelled
  /\ Len(events) = 2
  /\ Len(wire) = 8
  /\ LastOf(sent) = [type |-> "error", error |-> << "boom" >>]
  /\ wire[6] = ErrorChunkFrame(<< "boom" >>)
  /\ IsChunkEntry(wire[2], {"token"})

-----------------------------------------------------------------------------
(* The read loop alone: one response, read in buffers of any size *)

\* StreamChunk values a route can send
ValidChunks ==
  { [type |-> "token", content |-> << "a" >>, messageId |-> << "m1" >>],
    [type |-> "token", content |-> SpecialText],
    [type |-> "tool_call", toolCall |-> SearchCall(<< "c1" >>), messageId |-> << "m1" >>],
    [type |-> "tool_call", toolCall |-> SearchCall(<< "c2" >>)],
    [type |-> "tool_result", toolResult |-> [name |-> << "search" >>, content |-> SpecialText],
     messageId |-> << "t1" >>],
    [type |-> "tool_result", toolResult |-> [name |-> << "unknown" >>, content |-> << >>]],
    [type |-> "done"],
    [type |-> "error", error |-> << "boom" >>],
    [type |-> "error"] }

Piece(chunk) == [chunk |-> chunk]

Raw(text) == [text |-> text]

\* What the route writes for a piece of the script
Render(piece) == IF Has(piece, "chunk") THEN Frame(piece.chunk) ELSE piece.text

StreamOf(sc) == Concat([i \in 1..Len(sc) |-> Render(sc[i])])

BoomFrames == ErrorFrames([message |-> << "boom" >>])

\* A response that ends with the done sequence
DoneScript ==
  << Raw(ConnectedComment),
     Piece([type |-> "token", content |-> << "a" >>, messageId |-> << "m1" >>]),
     Piece([type |-> "token", content |-> SpecialText, messageId |-> << "m1" >>]),
     Piece(DoneChunk), Raw(EventLine("done")), Raw(DataFrame(JObj(<< >>))) >>

\* A response that ends with the error sequence
ErrorScript ==
  << Raw(ConnectedComment),
     Piece([type |-> "tool_call", toolCall |-> SearchCall(<< "c1" >>), messageId |-> << "m1" >>]),
     Piece([type |-> "error", error |-> << "boom" >>]),
     Raw(BoomFrames[2]), Raw(BoomFrames[3]) >>

\* Data lines a client cannot use: text that is not JSON, no payload, "{}"
BadLines ==
  << Raw(DataPrefix \o << "{", "\"", "type", "\"", ":" >> \o NL \o NL),
     Raw(DataPrefix \o << "oops" >> \o NL \o NL),
     Raw(DataPrefix \o NL \o NL),
     Raw(DataPrefix \o << "{", "}" >> \o NL \o NL) >>

\* A response with unusable data lines between two tokens
BadScript ==
  << Piece([type |-> "token", content |-> << "a" >>, messageId |-> << "m1" >>]) >>
    \o BadLines
    \o << Piece([type |-> "token", content |-> << "b" >>, messageId |-> << "m1" >>]) >>

\* A response cut inside its last frame
CutScript ==
  << Piece([type |-> "token", content |-> << "a" >>]),
     Raw(DataPrefix \o << "{", "\"", "type", "\"", ":", "\"", "token" >>) >>

\* A response that goes on after its done frame
LateScript ==
  << Piece([type |-> "token", content |-> << "a" >>, messageId |-> << "m1" >>]),
     Piece(DoneChunk),
     Piece([type |-> "token", content |-> << "b" >>, messageId |-> << "m1" >>]) >>

\* Responses that end a message with the named event alone
EventScripts ==
  { << Piece([type |-> "token", content |-> << "a" >>, messageId |-> << "m1" >>]),
       Raw(EventLine(name)) >> : name \in {"done", "error"} }

\* A response whose last frame is complete but for its line feeds
OpenEndScript ==
  << Piece([type |-> "token", content |-> << "a" >>, messageId |-> << "m1" >>]),
     Raw(DataPrefix \o JSONStringify(ChunkValue([type |-> "token", content |-> << "b" >>,
                                                 messageId |-> << "m1" >>]))) >>

Scripts ==
  { << Piece(c) >> : c \in ValidChunks } \cup { OpenEndScript }
    \cup { DoneScript, ErrorScript, BadScript, CutScript, LateScript }
    \cup EventScripts

\* The session that reads: the list with the question asked, the response body obtained
ReaderStart ==
  [messages |-> << [type |-> "human", data |-> [id |-> << "temp-1" >>, content |-> << "q" >>]] >>,
   currentMessageId |-> Null, accumulatedContent |-> << >>, isSending |-> TRUE]

ReadInit ==
  /\ InitEncIdle
  /\ InitClsIdle
  /\ InitCorsIdle /\ InitSetupIdle
  /\ messages = ReaderStart.messages
  /\ currentMessageId = Null
  /\ accumulatedContent = << >>
  /\ isSending = TRUE
  /\ started = TRUE
  /\ trace = << >>
  /\ now = 1
  /\ sessions = << [phase |-> "reading", aborted |-> FALSE, buffer |-> << >>,
                    lines |-> << >>] >>
  /\ abortControllerRef = 1
  /\ sendError = NoError
  /\ unmounted = FALSE
  /\ script \in Scripts

\* The sizes of a read: up to MaxRead characters, or all the rest of the response
ReadSizes(rest) == { n \in 1..rest : n <= MaxRead \/ n = rest }

\* reader.read() gives the next n characters of the response
ReadSome ==
  /\ sessions[1].phase = "reading"
  /\ \E n \in ReadSizes(Len(StreamOf(script)) - rd) :
        LET r == ReadStep(AccState, sessions[1].buffer,
                          SubSeq(StreamOf(script), rd + 1, rd + n), now)
        IN  /\ rd' = rd + n
            /\ SetAccState(r.st)
            /\ trace' = trace \o r.handed
            /\ sessions' = [sessions EXCEPT ![1].buffer = r.buffer,
                                            ![1].lines = @ \o r.lines]
  /\ UNCHANGED << started, now, encPc, cancelled, events, pending, sent, wire, pulledAt,
                  clsVars, corsVars, setupVars, abortControllerRef, sendError, unmounted, script >>

\* reader.read() gives done: the loop is left
ReadEnd ==
  /\ sessions[1].phase = "reading"
  /\ rd = Len(StreamOf(script))
  /\ sessions' = [sessions EXCEPT ![1].phase = "ended"]
  /\ UNCHANGED << accVars, now, encVars, clsVars, corsVars, setupVars, abortControllerRef, sendError, unmounted,
                  script >>

ReadNext == Tick \/ ReadSome \/ ReadEnd

SpecRead == ReadInit /\ [][ReadNext]_vars

-----------------------------------------------------------------------------
(* Claims about the frame parser *)

\* What one read of the whole text hands to the accumulator, and what it keeps
WholeRead(text) == ReadStep(ReaderStart, << >>, text, 1)

\* C13: however the response is cut into read buffers, the chunks handed to the
\* accumulator (and the text kept for the next read) are those of a single read of all
\* the text received so far.
C13_PartitionIndependence ==
  /\ trace = WholeRead(SubSeq(StreamOf(script), 1, rd)).handed
  /\ sessions[1].buffer = WholeRead(SubSeq(StreamOf(script), 1, rd)).buffer

\* A read has ended inside the "data: " prefix of the frame after the first chunk
C13_Witness ==
  /\ script = DoneScript
  /\ Len(trace) = 1
  /\ sessions[1].buffer = << "d", "a", "t" >>

ChunksOf(sc) ==
  LET at == SelectSeq([i \in 1..Len(sc) |-> sc[i]], LAMBDA piece : Has(piece, "chunk"))
  IN  [i \in 1..Len(at) |-> at[i].chunk]

TypedOnly(chunks) == SelectSeq(chunks, LAMBDA c : Has(c, "type"))

\* C14: the frame written for a chunk, read back by the frame parser and JSON-decoded,
\* gives a chunk equal to the original: same type, same kind-specific field, and a
\* messageId only when the original has one.
C14_RoundTrip ==
  (sessions[1].phase = "ended" /\ script # CutScript) =>
     /\ TypedOnly(trace) = ChunksOf(script)
     /\ \A i \in 1..Len(TypedOnly(trace)) :
           Has(TypedOnly(trace)[i], "messageId") <=> Has(ChunksOf(script)[i], "messageId")

C14_Witness ==
  /\ sessions[1].phase = "ended"
  /\ script = << Piece([type |-> "tool_result",
                       toolResult |-> [name |-> << "search" >>, content |-> SpecialText],
                       messageId |-> << "t1" >>]) >>
  /\ Len(trace) = 1
  /\ trace[1].toolResult.content = SpecialText

\* The lines completed by a read of the next n characters
CompletedLines(n) ==
  LET segs == Split(sessions[1].buffer \o SubSeq(StreamOf(script), rd + 1, rd + n))
  IN  SubSeq(segs, 1, Len(segs) - 1)

\* A data line whose payload is empty, "{}" or not JSON
Unusable(line) ==
  /\ IsPrefixOf(DataPrefix, line)
  /\ LET payload == SubSeq(line, Len(DataPrefix) + 1, Len(line))
     IN  payload = << >> \/ payload = << "{", "}" >> \/ ~ParseText(payload).ok

OnlyUnusable(lines) ==
  /\ \E i \in 1..Len(lines) : Unusable(lines[i])
  /\ \A i \in 1..Len(lines) : Unusable(lines[i]) \/ lines[i] = << >>

UnusableStepOk ==
  \A n \in 1..(Len(StreamOf(script)) - rd) :
     (rd' = rd + n /\ OnlyUnusable(CompletedLines(n)))
     => /\ messages' = messages
        /\ currentMessageId' = currentMessageId
        /\ accumulatedContent' = accumulatedContent
        /\ isSending' = isSending
        /\ sendError' = sendError
        /\ trace' = trace
        /\ sessions'[1].phase = "reading"

\* C15: a read that completes only data lines with an invalid, empty or "{}" payload
\* changes neither the list nor currentMessageId, accumulatedContent, the sending state
\* or sendError, and the session goes on: the frames after them are applied.
C15_MalformedIgnored ==
  /\ [][UnusableStepOk]_vars
  /\ [](script = BadScript /\ rd = Len(StreamOf(script))
          => /\ Len(trace) = 2
             /\ AiContents(messages) = << << "a", "b" >> >>
             /\ sendError = NoError)

C15_Witness ==
  /\ script = BadScript
  /\ rd = Len(StreamOf(script))
  /\ Len(trace) = 2
  /\ sessions[1].phase = "ended"

-----------------------------------------------------------------------------
(* The sessions of a thread view: sendMessage, approveToolExecution, unmount *)

\* approveToolExecution: handleStreamResponse with no text, no message is appended
approveToolExecution(st) == StreamPrologue(st)

SessSend ==
  /\ ~unmounted
  /\ Len(sessions) < MaxSessions
  /\ started' = TRUE
  /\ SetAccState(sendMessage(AccState, << "q" >>, now))
  /\ BeginSession
  /\ UNCHANGED << trace, now, encVars, clsVars, corsVars, setupVars, unmounted, script >>

SessApprove ==
  /\ ~unmounted
  /\ Len(sessions) < MaxSessions
  /\ started' = TRUE
  /\ SetAccState(approveToolExecution(AccState))
  /\ BeginSession
  /\ UNCHANGED << trace, now, encVars, clsVars, corsVars, setupVars, unmounted, script >>

\* What fetch, the status check, getReader and reader.read throw when nothing was aborted
FetchFailures ==
  { [name |-> "TypeError", message |-> << "Failed to fetch" >>],
    [name |-> "Error", message |-> << "Stream request failed: ", "500" >>],
    [name |-> "Error", message |-> << "No response body" >>] }

ReadFailure == [name |-> "TypeError", message |-> << "network error" >>]

\* A catch block that shows a transport failure as a message of the chat
CatchAsMessage(i, err) ==
  /\ sendError' = err
  /\ SetAccState(ErrorCase(AccState, [type |-> "error", error |-> err.message], now))
  /\ sessions' = [sessions EXCEPT ![i].phase = "failed"]

\* A catch block without the test for AbortError
CatchAbortAsFailure(i, err) ==
  /\ sendError' = err
  /\ SetAccState(DoneCase(AccState))
  /\ sessions' = [sessions EXCEPT ![i].phase = IF err.name = "AbortError" THEN "aborted"
                                                  ELSE "failed"]

\* The catch block of handleStreamResponse (lines 292-301)
Catch(i, err) ==
  IF err.name = "AbortError"
  THEN /\ sessions' = [sessions EXCEPT ![i].phase = "aborted"]
       /\ UNCHANGED << messages, currentMessageId, accumulatedContent, isSending, sendError >>
  ELSE /\ sendError' = err
       /\ SetAccState(DoneCase(AccState))
       /\ sessions' = [sessions EXCEPT ![i].phase = "failed"]

AbortError == [name |-> "AbortError", message |-> << "The operation was aborted." >>]

InFlight(i) == sessions[i].phase \in {"fetching", "reading"}

\* fetch resolves with a response that is ok and has a body
SessFetched(i) ==
  /\ sessions[i].phase = "fetching"
  /\ ~sessions[i].aborted
  /\ sessions' = [sessions EXCEPT ![i].phase = "reading"]
  /\ UNCHANGED << accVars, now, encVars, clsVars, corsVars, setupVars, abortControllerRef, sendError, unmounted,
                  script >>

\* fetch rejects, the status is not ok, or the response has no body
SessFetchFails(i) ==
  /\ sessions[i].phase = "fetching"
  /\ ~sessions[i].aborted
  /\ \E err \in FetchFailures : Catch(i, err)
  /\ UNCHANGED << started, trace, now, encVars, clsVars, corsVars, setupVars, abortControllerRef, unmounted, script >>

\* The texts a read can give: whole frames of the response
SessBuffers ==
  { Frame([type |-> "token", content |-> << "a" >>, messageId |-> << "m1" >>]),
    Concat(DoneFrames),
    Concat(BoomFrames) }

\* A read that still resolves with text after its session was aborted
SessReadStale(i) ==
  /\ sessions[i].phase = "reading"
  /\ Len(trace) < MaxReads
  /\ \E value \in SessBuffers :
        LET r == ReadStep(AccState, sessions[i].buffer, value, now)
        IN  /\ SetAccState(r.st)
            /\ trace' = trace \o r.handed
            /\ sessions' = [sessions EXCEPT ![i].buffer = r.buffer]
  /\ UNCHANGED << started, now, encVars, clsVars, corsVars, setupVars, abortControllerRef, sendError,
                  unmounted, script >>

\* reader.read() resolves with the next text of the response
SessRead(i) ==
  /\ sessions[i].phase = "reading"
  /\ ~sessions[i].aborted
  /\ Len(trace) < MaxReads
  /\ \E value \in SessBuffers :
        LET r == ReadStep(AccState, sessions[i].buffer, value, now)
        IN  /\ SetAccState(r.st)
            /\ trace' = trace \o r.handed
            /\ sessions' = [sessions EXCEPT ![i].buffer = r.buffer]
  /\ UNCHANGED << started, now, encVars, clsVars, corsVars, setupVars, abortControllerRef, sendError, unmounted,
                  script >>

\* reader.read() rejects although nothing was aborted
SessReadFails(i) ==
  /\ sessions[i].phase = "reading"
  /\ ~sessions[i].aborted
  /\ Catch(i, ReadFailure)
  /\ UNCHANGED << started, trace, now, encVars, clsVars, corsVars, setupVars, abortControllerRef, unmounted, script >>

\* reader.read() resolves with done
SessEnd(i) ==
  /\ sessions[i].phase = "reading"
  /\ ~sessions[i].aborted
  /\ sessions' = [sessions EXCEPT ![i].phase = "ended"]
  /\ UNCHANGED << accVars, now, encVars, clsVars, corsVars, setupVars, abortControllerRef, sendError, unmounted,
                  script >>

\* The pending fetch or read of an aborted session rejects with AbortError
SessAborted(i) ==
  /\ InFlight(i)
  /\ sessions[i].aborted
  /\ Catch(i, AbortError)
  /\ UNCHANGED << started, trace, now, encVars, clsVars, corsVars, setupVars, abortControllerRef, unmounted, script >>

\* The cleanup effect of useChatThread
Unmount ==
  /\ ~unmounted
  /\ unmounted' = TRUE
  /\ sessions' = AbortCurrent(sessions, abortControllerRef)
  /\ UNCHANGED << accVars, now, encVars, clsVars, corsVars, setupVars, abortControllerRef, sendError, script >>

SessInit == InitAcc /\ InitEncIdle /\ InitClsIdle /\ InitCorsIdle /\ InitSetupIdle /\ InitCliIdle

SessNext ==
  \/ SessSend
  \/ SessApprove
  \/ Unmount
  \/ \E i \in 1..Len(sessions) :
        \/ SessFetched(i)
        \/ SessFetchFails(i)
        \/ SessRead(i)
        \/ SessReadFails(i)
        \/ SessEnd(i)
        \/ SessAborted(i)

SpecSess == SessInit /\ [][SessNext]_vars

-----------------------------------------------------------------------------
(* Claims about sessions *)

NotAborted == { i \in 1..Len(sessions) : ~sessions[i].aborted }

\* C16: a session that starts aborts the controller of the one before it in the same
\* step, so at every moment at most one session has a controller that is not aborted,
\* and it is the latest one.
C16_OneLiveSession ==
  /\ Cardinality(NotAborted) <= 1
  /\ \A i \in NotAborted : i = Len(sessions) /\ i = abortControllerRef

C16_Witness ==
  /\ Len(sessions) = 2
  /\ sessions[1].aborted /\ sessions[1].phase = "reading"
  /\ ~sessions[2].aborted /\ sessions[2].phase = "fetching"
  /\ Len(trace) = 1
  /\ Len(messages) = 3

ErrorMessages(ms) == SelectSeq(ms, LAMBDA m : m.type = "error")

\* A step in which a session is cancelled, or in which a cancelled session notices it
CancelStep ==
  \E i \in 1..Len(sessions) :
     \/ ~sessions[i].aborted /\ sessions'[i].aborted
     \/ sessions[i].phase # "aborted" /\ sessions'[i].phase = "aborted"

CancelStepOk ==
  CancelStep =>
     /\ SubSeq(messages', 1, Len(messages)) = messages
     /\ ErrorMessages(messages') = ErrorMessages(messages)
     /\ sendError' \in {sendError, NoError}

\* C17: cancelling a session (a newer one starts, or the view is torn down), and the
\* cancelled session noticing it, appends no error message, does not set sendError and
\* leaves every message of the list as it was.
C17_CancelIsSilent == [][CancelStepOk]_vars

C17_Witness ==
  /\ Len(sessions) = 2
  /\ sessions[1].phase = "aborted"
  /\ sessions[2].phase = "reading"
  /\ sendError = NoError
  /\ TypesOf(messages) = << "human", "ai", "human" >>

FailureStep(i) == sessions[i].phase # "failed" /\ sessions'[i].phase = "failed"

FailureStepsOk ==
  \A i \in 1..Len(sessions) :
     FailureStep(i) =>
        /\ sendError' \in FetchFailures \cup {ReadFailure}
        /\ isSending' = FALSE
        /\ currentMessageId' = Null
        /\ accumulatedContent' = << >>
        /\ messages' = messages

\* C18: a transport failure that is not a cancellation (fetch rejects, status not ok,
\* no body, a read fails) sets sendError, ends the sending state, resets currentMessageId
\* and accumulatedContent and leaves the list as it is: no error message is appended.
C18_TransportFailure == [][FailureStepsOk]_vars

C18_Witness ==
  /\ Len(sessions) = 1
  /\ sessions[1].phase = "failed"
  /\ sendError = ReadFailure
  /\ ~isSending
  /\ currentMessageId = Null
  /\ TypesOf(messages) = << "human", "ai" >>

-----------------------------------------------------------------------------
(* Claims about failures shown to the user *)

\* The route has reported a failure and the client has read the frame of the error chunk
ErrorChunkRead ==
  /\ encPc = "closed"
  /\ LastOf(sent).type = "error"
  /\ rd >= Len(wire) - 2

\* C19: a failure of the engine is shown as exactly one error message: the frame of the
\* error chunk appends it, the "event: error" line and its {message, threadId} data line
\* that follow append nothing.
C19_OneErrorMessage ==
  /\ Len(ErrorMessages(messages)) = IF ErrorChunkRead THEN 1 ELSE 0
  /\ ErrorChunkRead =>
        ErrorMessages(messages)[1].data.content
           = << "U+26A0", "U+FE0F", " " >> \o LastOf(sent).error

C19_Witness ==
  /\ ErrorChunkRead
  /\ rd = Len(wire)
  /\ Len(wire) >= 5
  /\ ~Has(LastOf(trace), "type")
  /\ LastOf(trace).threadId = << "th1" >>
  /\ TypesOf(messages) = << "human", "ai", "error" >>

ErrorTextOf(chunk) ==
  IF Has(chunk, "error") /\ chunk.error # << >> THEN chunk.error
  ELSE << "An error occurred" >>

ErrorChunkStepOk ==
  (Len(trace') = Len(trace) + 1 /\ LastOf(trace').type = "error") =>
     /\ Len(messages') = Len(messages) + 1
     /\ SubSeq(messages', 1, Len(messages)) = messages
     /\ LastOf(messages').type = "error"
     /\ LastOf(messages').data.content
          = << "U+26A0", "U+FE0F", " " >> \o ErrorTextOf(LastOf(trace'))
     /\ currentMessageId' = Null
     /\ accumulatedContent' = << >>

\* C20: an error chunk appends exactly one error message, whose content is the warning
\* glyph, a blank and the chunk's error text ("An error occurred" when it has none),
\* leaves the earlier messages as they are, and resets currentMessageId to null and
\* accumulatedContent to empty.
C20_ErrorChunk == [][ErrorChunkStepOk]_vars

C20_Witness ==
  /\ Len(trace) = 3
  /\ trace[1].type = "token" /\ trace[2].type = "token"
  /\ trace[3] = [type |-> "error"]
  /\ TypesOf(messages) = << "human", "ai", "error" >>
  /\ LastOf(messages).data.content = << "U+26A0", "U+FE0F", " ", "An error occurred" >>
  /\ currentMessageId = Null

-----------------------------------------------------------------------------
(* Claims about the tool_result case and the windows it closes *)

ToolResultStepOk ==
  (Len(trace') = Len(trace) + 1 /\ LastOf(trace').type = "tool_result") =>
     LET chunk == LastOf(trace')
     IN  /\ Len(messages') = Len(messages) + 1
         /\ SubSeq(messages', 1, Len(messages)) = messages
         /\ LastOf(messages').type = "tool"
         /\ LastOf(messages').data.name = chunk.toolResult.name
         /\ LastOf(messages').data.content = chunk.toolResult.content
         /\ LastOf(messages').data.status = << "success" >>
         /\ LastOf(messages').data.id
              = (IF Has(chunk, "messageId") THEN chunk.messageId
                 ELSE << "tool-", ToString(now) >>)
         /\ currentMessageId' = Null
         /\ accumulatedContent' = << >>

TokenAfterToolResultOk ==
  ( /\ trace # << >> /\ LastOf(trace).type = "tool_result"
    /\ Len(trace') = Len(trace) + 1 /\ LastOf(trace').type = "token" ) =>
     /\ Len(messages') = Len(messages) + 1
     /\ SubSeq(messages', 1, Len(messages)) = messages
     /\ LastOf(messages').type = "ai"
     /\ LastOf(messages').data.content = ContentOf(LastOf(trace'))

\* C21: a tool_result chunk appends exactly one tool message (the chunk's name and
\* content, status "success", the chunk's messageId as id when it has one and a generated
\* id otherwise) and leaves currentMessageId null and accumulatedContent empty; the token
\* that follows it appends a new ai message.
C21_ToolResultAppends == [][ToolResultStepOk /\ TokenAfterToolResultOk]_vars

C21_Witness ==
  /\ Len(trace) = 3
  /\ trace[1].type = "token"
  /\ trace[2] = [type |-> "tool_result",
                 toolResult |-> [name |-> << "search" >>, content |-> << "r" >>]]
  /\ trace[3].type = "token"
  /\ TypesOf(messages) = << "human", "ai", "tool", "ai" >>
  /\ messages[3].data.id = << "tool-", "1" >>
  /\ messages[3].data.status = << "success" >>

-----------------------------------------------------------------------------
(* tokenGenerator over an iterable of engine events *)

\* An AIMessageChunk without an id whose content holds one functionCall item
FunctionCallChunk ==
  [kind |-> "message", ctor |-> "AIMessageChunk",
   content |-> JArr(<< [kind |-> "object", functionCall |-> SearchFunctionCall] >>)]

GenEvents ==
  UnhandledEvents
    \cup { MessagesEvent(HiChunk), MessagesEvent(ToolResultMessage),
           MessagesEvent(FunctionCallChunk) }

\* One iteration of for await (const chunk of iterable): the chunks of the event are
\* yielded in order, and the loop goes on to the next event
GenPull ==
  /\ Len(genIn) < MaxPulls
  /\ \E chunk \in GenEvents :
        /\ genIn' = Append(genIn, chunk)
        /\ genOut' = Append(genOut, ClassifyEvent(chunk, now))
  /\ UNCHANGED << clsIn, clsOut, clsDone, corsVars, setupVars, now, accVars, encVars, cliVars >>

GenInit == InitAcc /\ InitEncIdle /\ InitClsIdle /\ InitCorsIdle /\ InitSetupIdle /\ InitCliIdle

GenNext == Tick \/ GenPull

SpecGen == GenInit /\ [][GenNext]_vars

-----------------------------------------------------------------------------
(* Claims about the events the classifier ignores *)

\* The event is null, is not a 2-element tuple, has a mode other than "messages", a
\* payload that is not a sequence or is empty, a null first element, or a message that is
\* neither an AIMessageChunk nor a ToolMessage
Ignorable(e) ==
  \/ e.kind = "null"
  \/ e.kind # "array"
  \/ e.kind = "array" /\ Len(e.items) # 2
  \/ /\ e.kind = "array" /\ Len(e.items) = 2
     /\ \/ e.items[1] # JStr(<< "messages" >>)
        \/ e.items[2].kind # "array"
        \/ e.items[2].kind = "array" /\ e.items[2].items = << >>
        \/ /\ e.items[2].kind = "array" /\ e.items[2].items # << >>
           /\ \/ e.items[2].items[1].kind = "null"
              \/ /\ e.items[2].items[1].kind = "message"
                 /\ e.items[2].items[1].ctor \notin {"AIMessageChunk", "ToolMessage"}

\* The chunks of the two events of GenEvents that carry a message the classifier handles
ExpectedOf(e) ==
  CASE e = MessagesEvent(HiChunk)
         -> << [type |-> "token", content |-> << "H", "i" >>, messageId |-> << "m1" >>] >>
    [] e = MessagesEvent(ToolResultMessage)
         -> << [type |-> "tool_result",
                toolResult |-> [name |-> << "search" >>, content |-> << "r" >>],
                messageId |-> << "t1" >>] >>
    [] OTHER -> << [type |-> "unexpected"] >>

\* C22: an engine event that is null, is not a 2-element tuple, has a mode other than
\* "messages", has a payload that is not a sequence or is empty, has a null first
\* element, or carries a message that is neither an AIMessageChunk nor a ToolMessage
\* yields no chunk, and the events after it are classified as if it had not been there.
C22_IgnoredEvents ==
  \A i \in 1..Len(genIn) :
     IF Ignorable(genIn[i]) THEN genOut[i] = << >>
     ELSE IF genIn[i] = MessagesEvent(FunctionCallChunk)
          THEN Len(genOut[i]) = 1 /\ genOut[i][1].type = "tool_call"
          ELSE genOut[i] = ExpectedOf(genIn[i])

C22_Witness ==
  /\ Len(genIn) = 3
  /\ genIn[1] = JNull
  /\ genIn[2] = JArr(<< JStr(<< "messages" >>), JArr(<< >>) >>)
  /\ genIn[3] = MessagesEvent(HiChunk)
  /\ genOut = << << >>, << >>,
                 << [type |-> "token", content |-> << "H", "i" >>, messageId |-> << "m1" >>] >> >>

-----------------------------------------------------------------------------
(* The CORS middleware *)

Includes(list, x) == \E i \in 1..Len(list) : list[i] = x

\* list.join(sep)
RECURSIVE Join(_, _)
Join(list, sep) ==
  IF list = << >> THEN << >>
  ELSE IF Len(list) = 1 THEN Head(list)
  ELSE Head(list) \o sep \o Join(Tail(list), sep)

\* isOriginAllowed; !origin holds of null and of the empty string
isOriginAllowed(o, cfg) ==
  IF o = Null \/ o = << >> THEN FALSE
  ELSE IF Includes(cfg.allowedOrigins, << "*" >>) THEN TRUE
  ELSE Includes(cfg.allowedOrigins, o)

\* response.headers.set(name, value)
HeadersSet(res, name, value) == [res EXCEPT !.headers = WithField(@, name, value)]

\* An addCORSHeaders that answers a wildcard configuration with the wildcard itself
addCORSHeadersWildcard(res, o, cfg) ==
  IF o # Null /\ o # << >> /\ isOriginAllowed(o, cfg)
  THEN LET allowed == IF Includes(cfg.allowedOrigins, << "*" >>) THEN << "*" >> ELSE o
           r1 == HeadersSet(res, "Access-Control-Allow-Origin", allowed)
           r2 == HeadersSet(r1, "Access-Control-Allow-Methods",
                            Join(cfg.allowedMethods, << ", " >>))
           r3 == HeadersSet(r2, "Access-Control-Allow-Headers",
                            Join(cfg.allowedHeaders, << ", " >>))
           r4 == HeadersSet(r3, "Access-Control-Max-Age", << ToString(cfg.maxAge) >>)
       IN  IF cfg.allowCredentials
           THEN HeadersSet(r4, "Access-Control-Allow-Credentials", << "true" >>)
           ELSE r4
  ELSE res

addCORSHeaders(res, o, cfg) ==
  IF o # Null /\ o # << >> /\ isOriginAllowed(o, cfg)
  THEN LET r1 == HeadersSet(res, "Access-Control-Allow-Origin", o)
           r2 == HeadersSet(r1, "Access-Control-Allow-Methods",
                            Join(cfg.allowedMethods, << ", " >>))
           r3 == HeadersSet(r2, "Access-Control-Allow-Headers",
                            Join(cfg.allowedHeaders, << ", " >>))
           r4 == HeadersSet(r3, "Access-Control-Max-Age", << ToString(cfg.maxAge) >>)
       IN  IF cfg.allowCredentials
           THEN HeadersSet(r4, "Access-Control-Allow-Credentials", << "true" >>)
           ELSE r4
  ELSE res

\* NextResponse.next()
NextResponseNext == [status |-> 200, headers |-> [n \in {"x-middleware-next"} |-> << "1" >>]]

\* handlePreflight: new NextResponse(null, { status: 204 }), then addCORSHeaders
handlePreflight(o, cfg) == addCORSHeaders([status |-> 204, headers |-> << >>], o, cfg)

\* pathname.startsWith("/api")
IsApiPath(pathname) == pathname # << >> /\ Head(pathname) = "/api"

middleware(req, cfg) ==
  IF ~IsApiPath(req.pathname) THEN NextResponseNext
  ELSE IF req.method = "OPTIONS" THEN handlePreflight(req.origin, cfg)
  ELSE addCORSHeaders(NextResponseNext, req.origin, cfg)

\* The Origin header of a request: none, empty, or one of two origins
Origins == { Null, << >>, << "http://localhost:3001" >>, << "https://other.example" >> }

Requests ==
  [origin : Origins, method : {"GET", "OPTIONS"},
   pathname : { << "/api", "/agent/stream" >>, << "/chat" >> }]

\* The entries CORS_ALLOWED_ORIGINS can hold after split, trim and filter(Boolean)
OriginEntries == { << "http://localhost:3001" >>, << "https://example.com" >>, << "*" >> }

OriginLists ==
  UNION { [1..n -> OriginEntries] : n \in 0..MaxOrigins }

Configs ==
  [allowedOrigins : OriginLists,
   allowedMethods : { << << "GET" >>, << "POST" >>, << "PATCH" >>, << "DELETE" >>,
                         << "OPTIONS" >> >> },
   allowedHeaders : { << << "Content-Type" >>, << "Authorization" >>,
                         << "X-Requested-With" >> >> },
   allowCredentials : BOOLEAN,
   maxAge : {86400}]

\* The middleware answers the request
CorsMiddleware ==
  /\ corsPc = "request"
  /\ response' = middleware(request, config)
  /\ corsPc' = "done"
  /\ UNCHANGED << request, config, setupVars, now, accVars, encVars, clsVars, cliVars >>

CorsInit ==
  /\ InitAcc /\ InitEncIdle /\ InitClsIdle /\ InitSetupIdle /\ InitCliIdle
  /\ request \in Requests
  /\ config \in Configs
  /\ response = [status |-> 0, headers |-> << >>]
  /\ corsPc = "request"

CorsNext == CorsMiddleware

SpecCors == CorsInit /\ [][CorsNext]_vars

-----------------------------------------------------------------------------
(* Claims about the CORS headers *)

CorsHeaderNames ==
  { "Access-Control-Allow-Origin", "Access-Control-Allow-Methods",
    "Access-Control-Allow-Headers", "Access-Control-Max-Age",
    "Access-Control-Allow-Credentials" }

\* The request has an Origin (neither null nor empty) that is listed, or any Origin at
\* all when the list holds "*"
OriginAccepted ==
  /\ request.origin # Null /\ request.origin # << >>
  /\ \/ \E i \in 1..Len(config.allowedOrigins) : config.allowedOrigins[i] = request.origin
     \/ \E i \in 1..Len(config.allowedOrigins) : config.allowedOrigins[i] = << "*" >>

\* C23: on an API request, Access-Control-Allow-Origin is set exactly when the request
\* has an Origin that is listed in allowedOrigins or allowedOrigins holds "*", and then
\* to the request's own Origin, never to "*"; for no Origin, an unlisted Origin or an
\* empty list, the response has no CORS header at all.
C23_AllowOrigin ==
  (corsPc = "done" /\ IsApiPath(request.pathname)) =>
     IF OriginAccepted
     THEN /\ "Access-Control-Allow-Origin" \in DOMAIN response.headers
          /\ response.headers["Access-Control-Allow-Origin"] = request.origin
          /\ response.headers["Access-Control-Allow-Origin"] # << "*" >>
     ELSE DOMAIN response.headers \cap CorsHeaderNames = {}

C23_Witness ==
  /\ corsPc = "done"
  /\ request.origin = << "https://other.example" >>
  /\ request.method = "OPTIONS"
  /\ IsApiPath(request.pathname)
  /\ config.allowedOrigins = << << "https://example.com" >>, << "*" >> >>
  /\ response.status = 204
  /\ response.headers["Access-Control-Allow-Origin"] = << "https://other.example" >>

-----------------------------------------------------------------------------
(* Claims about what a token or tool_call chunk may change *)

\* The step hands one token or tool_call chunk to processStreamChunk
TokenOrToolCallStep ==
  /\ Len(trace') = Len(trace) + 1
  /\ LastOf(trace').type \in {"token", "tool_call"}

\* The messages that precede the open window: all of them when no window is open, all
\* but the last one (the ai message the open window created) otherwise
BeforeOpenWindow ==
  IF currentMessageId = Null THEN 1..Len(messages) ELSE 1..(Len(messages) - 1)

\* C24 (as claimed): once a tool_result, done or error chunk has closed a window, no later
\* token or tool_call chunk modifies the ai message of that window, also when the later
\* chunks carry the messageId of the closed message.
C24_ClosedWindowFrozen ==
  [][TokenOrToolCallStep => \A i \in BeforeOpenWindow : messages'[i] = messages[i]]_vars

\* The chunk of the step carries a messageId other than the id of the open ai message
ForeignIdStep ==
  /\ TokenOrToolCallStep
  /\ currentMessageId # Null
  /\ Has(LastOf(trace'), "messageId")
  /\ LastOf(trace').messageId # currentMessageId

\* The chunk of the step is a token whose messageId no ai message has
UnseenIdTokenStep ==
  /\ Len(trace') = Len(trace) + 1
  /\ LastOf(trace').type = "token"
  /\ Has(LastOf(trace'), "messageId")
  /\ \A i \in 1..Len(messages) :
        IsAi(messages[i]) => messages[i].data.id # LastOf(trace').messageId

\* C25 (as claimed): within a window, a token or tool_call chunk whose messageId differs
\* from the id of the open ai message is not added to that message, and a token with a
\* messageId no message has yet gets a new ai message of its own.
C25_OwnIdOnly ==
  [][ /\ ForeignIdStep =>
           \A i \in 1..Len(messages) :
              (IsAi(messages[i]) /\ messages[i].data.id = currentMessageId)
                 => messages'[i] = messages[i]
      /\ UnseenIdTokenStep =>
           /\ Len(messages') = Len(messages) + 1
           /\ LastOf(messages').type = "ai"
           /\ LastOf(messages').data.id = LastOf(trace').messageId ]_vars

\* C26: a tool_call chunk that arrives while currentMessageId is null changes nothing:
\* the message list, currentMessageId and accumulatedContent stay as they were.
C26_ToolCallWithoutMessage ==
  [][ ( /\ Len(trace') = Len(trace) + 1
        /\ LastOf(trace').type = "tool_call"
        /\ currentMessageId = Null )
      => /\ messages' = messages
         /\ currentMessageId' = Null
         /\ accumulatedContent' = accumulatedContent
         /\ isSending' = isSending ]_vars

C26_Witness ==
  /\ Len(trace) = 3
  /\ trace[1].type = "token"
  /\ trace[2].type = "tool_result"
  /\ trace[3].type = "tool_call"
  /\ TypesOf(messages) = << "human", "ai", "tool" >>
  /\ ToolCallsOf(messages[2]) = << >>
  /\ currentMessageId = Null

-----------------------------------------------------------------------------
(* Claims about the terminal frames and the lines of the read loop *)

\* The lines of a text that end with a line feed, in order
TerminatedLines(text) == LET segs == Split(text) IN SubSeq(segs, 1, Len(segs) - 1)

\* A data line with a done or error chunk, or an "event: done" / "event: error" line
TerminalLine(line) ==
  \/ IsPrefixOf(EventPrefix \o << "done" >>, line)
  \/ IsPrefixOf(EventPrefix \o << "error" >>, line)
  \/ /\ IsPrefixOf(DataPrefix, line)
     /\ LET parsed == JSONParse(SubSeq(line, Len(DataPrefix) + 1, Len(line)))
        IN  parsed.ok /\ Has(parsed.v, "type") /\ parsed.v.type \in {"done", "error"}

\* The text read so far holds a complete terminal line
TerminalSeen ==
  LET lines == TerminatedLines(SubSeq(StreamOf(script), 1, rd))
  IN  \E i \in 1..Len(lines) : TerminalLine(lines[i])

QuietTerminalLine(line) ==
  \/ IsPrefixOf(EventPrefix \o << "done" >>, line)
  \/ IsPrefixOf(EventPrefix \o << "error" >>, line)
  \/ /\ IsPrefixOf(DataPrefix, line)
     /\ LET parsed == JSONParse(SubSeq(line, Len(DataPrefix) + 1, Len(line)))
        IN  parsed.ok /\ parsed.v = [type |-> "done"]

OnlyQuietTerminal(lines) ==
  /\ \E i \in 1..Len(lines) : QuietTerminalLine(lines[i])
  /\ \A i \in 1..Len(lines) : QuietTerminalLine(lines[i]) \/ lines[i] = << >>

QuietTerminalStepOk ==
  \A n \in 1..(Len(StreamOf(script)) - rd) :
     (rd' = rd + n /\ OnlyQuietTerminal(CompletedLines(n)))
     => /\ isSending' = FALSE
        /\ currentMessageId' = Null
        /\ accumulatedContent' = << >>
        /\ messages' = messages

\* C28: a done chunk, an "event: done" line and an "event: error" line each end the
\* sending state and reset currentMessageId and accumulatedContent, and none of them
\* appends or modifies a message.
C28_QuietTerminals == [][QuietTerminalStepOk]_vars

C28_Witness ==
  /\ script = DoneScript
  /\ rd = Len(StreamOf(script))
  /\ LastOf(trace) = [type |-> "done"]
  /\ isSending = FALSE
  /\ currentMessageId = Null
  /\ accumulatedContent = << >>
  /\ TypesOf(messages) = << "human", "ai" >>

LineFeedFree(text) == \A i \in 1..Len(text) : text[i] # "\n"

\* C29: the lines the read loop has gone through are, each once and in order, the lines
\* of the text read so far whose line feed has arrived; the text after the last line feed
\* is in the buffer, and it is not processed, not even when the stream has ended.
C29_LinesOnce ==
  LET lines == sessions[1].lines
      buffer == sessions[1].buffer
  IN  /\ Concat([i \in 1..Len(lines) |-> lines[i] \o << "\n" >>]) \o buffer
           = SubSeq(StreamOf(script), 1, rd)
      /\ \A i \in 1..Len(lines) : LineFeedFree(lines[i])
      /\ LineFeedFree(buffer)
      /\ (script = OpenEndScript /\ sessions[1].phase = "ended")
           => /\ Len(trace) = 1
              /\ AiContents(messages) = << << "a" >> >>

C29_Witness ==
  /\ script = OpenEndScript
  /\ sessions[1].phase = "ended"
  /\ Len(sessions[1].lines) = 2
  /\ sessions[1].buffer = Render(OpenEndScript[2])
  /\ trace = << [type |-> "token", content |-> << "a" >>, messageId |-> << "m1" >>] >>

-----------------------------------------------------------------------------
(* Claims about the payload of a "messages" event *)

\* A 2-element event with the mode "messages"
IsMessagesMode(e) ==
  e.kind = "array" /\ Len(e.items) = 2 /\ e.items[1] = JStr(<< "messages" >>)

\* The payload is a sequence of at least 2 elements whose first element is not null
PayloadOfTwo(e) ==
  /\ e.items[2].kind = "array"
  /\ Len(e.items[2].items) >= 2
  /\ e.items[2].items[1].kind # "null"

\* C30 (as claimed): a "messages" event whose payload is not a sequence of at least 2
\* elements (a 1-element payload with a valid AIMessageChunk or ToolMessage included), or
\* whose first element is null or absent, yields nothing.
C30_ShortPayloadIgnored ==
  (clsDone /\ IsMessagesMode(clsIn) /\ ~PayloadOfTwo(clsIn)) => clsOut = << >>

-----------------------------------------------------------------------------
(* Claims about the ids the classifier gives *)

\* C31 (as claimed): classification is deterministic: the same engine event, classified
\* at different times and after different earlier events, yields the same chunks, with
\* the same toolCall.id and messageId, also for a functionCall item of a message that
\* has no id.
C31_Deterministic ==
  \A i, j \in 1..Len(genIn) : genIn[i] = genIn[j] => genOut[i] = genOut[j]

\* C32 (as claimed): every token, tool_call and tool_result chunk put on the wire carries
\* a messageId, whatever the engine message looks like; only done and error chunks have
\* none.
C32_MessageIdOnWire ==
  \A i \in 1..Len(sent) :
     /\ Has(sent[i], "type")
     /\ IF sent[i].type \in {"token", "tool_call", "tool_result"}
        THEN /\ Has(sent[i], "messageId")
             /\ \E k \in 1..Len(wire) : wire[k] = Frame(sent[i])
        ELSE ~Has(sent[i], "messageId")

-----------------------------------------------------------------------------
(* Claims about the pace of the drain *)

\* C33 (as claimed): the route pulls the next engine event only after the frames of the
\* events before the last one have been read (the connected comment aside): when the
\* client stops reading, the drain stops, and the frames written but not read stay
\* bounded by those of one event.
C33_Backpressure ==
  [][(Len(events') = Len(events) + 1 /\ pulledAt # << >>) => rd >= LastOf(pulledAt) - 1]_vars

-----------------------------------------------------------------------------
(* Claims about the shape of the message list *)

ListUnchanged == messages' = messages

AppendsOne ==
  /\ Len(messages') = Len(messages) + 1
  /\ SubSeq(messages', 1, Len(messages)) = messages

UpdatesOneAi ==
  /\ Len(messages') = Len(messages)
  /\ \E i \in 1..Len(messages) :
        /\ messages[i].type = "ai" /\ messages'[i].type = "ai"
        /\ messages'[i].data.id = messages[i].data.id
        /\ \A j \in (1..Len(messages)) \ {i} : messages'[j] = messages[j]

\* C34: no transition removes or reorders messages: each one leaves the list as it is,
\* appends one message at its end, or updates a single ai message in place, so the
\* length never decreases and human, tool and error messages never change once appended.
C34_AppendOnlyList == [][ListUnchanged \/ AppendsOne \/ UpdatesOneAi]_vars

C34_Witness ==
  /\ Len(trace) = 4
  /\ TypesOf(messages) = << "human", "ai", "tool" >>
  /\ messages[2].data.content = << "a", "b" >>
  /\ Len(ToolCallsOf(messages[2])) = 1

-----------------------------------------------------------------------------
(* Claims about the chunks of a cancelled session *)

\* The latest session, when it has not been aborted and is reading its response
LiveReader ==
  /\ abortControllerRef # 0
  /\ abortControllerRef = Len(sessions)
  /\ ~sessions[abortControllerRef].aborted
  /\ sessions[abortControllerRef].phase = "reading"

SessionStarts == Len(sessions') = Len(sessions) + 1

\* A chunk is handed to processStreamChunk only by the live session
NoStaleChunk == (trace' # trace) => LiveReader

\* The session that starts resets the accumulation state
StartResets == SessionStarts => (currentMessageId' = Null /\ accumulatedContent' = << >>)

\* A token read while no window is open gets an ai message of its own, with its content
FirstTokenOpens ==
  ( /\ Len(trace') = Len(trace) + 1
    /\ LastOf(trace').type = "token"
    /\ currentMessageId = Null )
  => /\ Len(messages') = Len(messages) + 1
     /\ SubSeq(messages', 1, Len(messages)) = messages
     /\ LastOf(messages').type = "ai"
     /\ LastOf(messages').data.content = ContentOf(LastOf(trace'))

\* C35: once a new session has reset the accumulator, no chunk of the cancelled
\* session's stream is applied to the list, currentMessageId or accumulatedContent, and
\* the first token of the new session creates a new ai message instead of extending the
\* one the earlier session left open.
C35_NoStaleChunks == [][NoStaleChunk /\ StartResets /\ FirstTokenOpens]_vars

C35_Witness ==
  /\ Len(sessions) = 2
  /\ sessions[1].aborted
  /\ sessions[2].phase = "reading"
  /\ Len(trace) = 2
  /\ TypesOf(messages) = << "human", "ai", "ai" >>
  /\ messages[2].data.content = << "a" >>
  /\ messages[3].data.content = << "a" >>

\* The content of the message is a sequence that holds two functionCall items, for
\* different calls, and the message has no tool_calls of its own
TwoFunctionCalls(message) ==
  /\ message.content.kind = "array"
  /\ \E i, j \in 1..Len(message.content.items) :
        /\ i < j
        /\ message.content.items[i].kind = "object"
        /\ message.content.items[j].kind = "object"
        /\ Has(message.content.items[i], "functionCall")
        /\ Has(message.content.items[j], "functionCall")
        /\ message.content.items[i].functionCall # message.content.items[j].functionCall
  /\ ~Has(message, "tool_calls")

ToolCallChunksOf(chunks) == SelectSeq(chunks, LAMBDA c : c.type = "tool_call")

\* C36 (as claimed): two functionCall items of one engine message yield tool_call chunks
\* with different toolCall.id, so that the duplicate-id guard of the accumulator keeps
\* both calls.
C36_DistinctCallIds ==
  (clsDone /\ IsEventOf(clsIn, "AIMessageChunk") /\ TwoFunctionCalls(MessageOf(clsIn)))
  => LET calls == ToolCallChunksOf(clsOut)
     IN  /\ Len(calls) = 2
         /\ calls[1].toolCall.id # calls[2].toolCall.id

\* C37: in every state the accumulator reaches, accumulatedContent is empty when
\* currentMessageId is null, and the list holds an ai message with the id
\* currentMessageId when it is not null.
C37_AccumulatorConsistent ==
  IF currentMessageId = Null THEN accumulatedContent = << >>
  ELSE \E i \in 1..Len(messages) :
          messages[i].type = "ai" /\ messages[i].data.id = currentMessageId

C37_Witness ==
  /\ Len(trace) = 4
  /\ trace[3].type = "tool_result"
  /\ trace[4].type = "token"
  /\ currentMessageId = << "m2" >>
  /\ accumulatedContent = << "a" >>
  /\ TypesOf(messages) = << "human", "ai", "tool", "ai" >>

-----------------------------------------------------------------------------
(* Claims about the end of a session *)

\* C38 (as claimed): a session that is not cancelled leaves the sending state: once its
\* response has ended (the reader reports the end of the stream) or failed, isSending is
\* false, whether or not a done or error frame was read before.
C38_SendingEnds ==
  \A i \in 1..Len(sessions) :
     (~sessions[i].aborted /\ sessions[i].phase \in {"ended", "failed"}) => ~isSending

-----------------------------------------------------------------------------
(* A failure before the first engine event *)

\* The frames of the done path are absent from the wire
NoDoneFrame ==
  \A i \in 1..Len(wire) : wire[i] # Frame(DoneChunk) /\ wire[i] # EventLine("done")

\* The route closed without having pulled any engine event and without the done path
ClosedBeforeFirstEvent ==
  /\ encPc = "closed"
  /\ events = << >>
  /\ \A i \in 1..Len(sent) : sent[i] # DoneChunk

\* The route closed on a failure, at any point of the stream
ClosedOnFailure ==
  /\ encPc = "closed"
  /\ sent # << >>
  /\ LastOf(sent).type = "error"

\* C39: when streamResponse rejects (ensuring the thread, building the agent or opening
\* the engine stream failed) or the engine fails before its first event, the wire holds
\* the connected comment, the error chunk frame, "event: error" and its data line, and
\* nothing else; a failure at any later point ends the wire with the same three frames
\* after the connected comment and the frames already written; no done frame in either.
C39_EarlyFailure ==
  /\ ClosedBeforeFirstEvent =>
        \E err \in Errors :
           /\ wire = << ConnectedComment >> \o ErrorFrames(err)
           /\ sent = << [type |-> "error", error |-> ErrorMessage(err)] >>
  /\ ClosedOnFailure =>
        /\ wire[1] = ConnectedComment
        /\ Len(wire) = Len(sent) + 3
        /\ \E err \in Errors : SubSeq(wire, Len(wire) - 2, Len(wire)) = ErrorFrames(err)
        /\ NoDoneFrame

C39_Witness ==
  /\ encPc = "closed"
  /\ ~cancelled
  /\ events = << >>
  /\ pulledAt = << >>
  /\ wire = << ConnectedComment >> \o ErrorFrames([message |-> << "boom" >>])

-----------------------------------------------------------------------------
(* The service's one-time checkpointer setup: setupOnce and ensureAgent *)

\* A setupOnce without the `if (!setupPromise)` test: every call starts a setup
setupOnceUnguarded(promise, begun) ==
  [setupPromise |-> Len(begun) + 1, setups |-> Append(begun, "pending")]

\* The synchronous part of setupOnce: when setupPromise is null, checkpointer.setup() is
\* begun and its promise (with the catch handler attached) is stored
setupOnce(promise, begun) ==
  IF promise = 0
  THEN [setupPromise |-> Len(begun) + 1, setups |-> Append(begun, "pending")]
  ELSE [setupPromise |-> promise, setups |-> begun]

\* ensureAgent is called: setupOnce runs up to its await
EnsureAgent ==
  /\ Len(callers) < MaxCalls
  /\ LET r == setupOnce(setupPromise, setups)
     IN /\ setupPromise' = r.setupPromise
        /\ setups' = r.setups
        /\ callers' = Append(callers, [pc |-> "awaiting", attempt |-> r.setupPromise])
  /\ UNCHANGED << now, accVars, encVars, clsVars, corsVars, cliVars >>

\* checkpointer.setup() resolves
SetupFulfils ==
  \E k \in 1..Len(setups) :
     /\ setups[k] = "pending"
     /\ setups' = [setups EXCEPT ![k] = "fulfilled"]
     /\ UNCHANGED << setupPromise, callers, now, accVars, encVars, clsVars, corsVars, cliVars >>

\* checkpointer.setup() rejects; the catch handler is queued
SetupRejects ==
  \E k \in 1..Len(setups) :
     /\ setups[k] = "pending"
     /\ setups' = [setups EXCEPT ![k] = "failing"]
     /\ UNCHANGED << setupPromise, callers, now, accVars, encVars, clsVars, corsVars, cliVars >>

\* The catch handler: setupPromise = null, then the error is thrown again
SetupCatch ==
  \E k \in 1..Len(setups) :
     /\ setups[k] = "failing"
     /\ setupPromise' = 0
     /\ setups' = [setups EXCEPT ![k] = "rejected"]
     /\ UNCHANGED << callers, now, accVars, encVars, clsVars, corsVars, cliVars >>

\* `await setupPromise` settles for one caller: createAgent is entered, or the failure
\* is thrown to the caller
SetupResume ==
  \E c \in 1..Len(callers) :
     /\ callers[c].pc = "awaiting"
     /\ setups[callers[c].attempt] \in {"fulfilled", "rejected"}
     /\ callers' = [callers EXCEPT ![c].pc =
                       IF setups[callers[c].attempt] = "fulfilled" THEN "creating"
                       ELSE "threw"]
     /\ UNCHANGED << setupPromise, setups, now, accVars, encVars, clsVars, corsVars, cliVars >>

\* createAgent: the tools are loaded and the agent is built, or loading them fails
CreateAgent ==
  \E c \in 1..Len(callers) :
     /\ callers[c].pc = "creating"
     /\ \E outcome \in {"returned", "createFailed"} :
           callers' = [callers EXCEPT ![c].pc = outcome]
     /\ UNCHANGED << setupPromise, setups, now, accVars, encVars, clsVars, corsVars, cliVars >>

SetupInit == InitAcc /\ InitEncIdle /\ InitClsIdle /\ InitCorsIdle /\ InitSetupIdle /\ InitCliIdle

SetupNext ==
  \/ EnsureAgent
  \/ SetupFulfils
  \/ SetupRejects
  \/ SetupCatch
  \/ SetupResume
  \/ CreateAgent

\* Concurrent ensureAgent calls, under any outcome of each setup
SpecSetup == SetupInit /\ [][SetupNext]_vars

\* The setups that are in flight or have succeeded
LiveSetups == { k \in 1..Len(setups) : setups[k] # "rejected" }

\* At most one setup is in flight or has succeeded, and it is the last one started
OneLiveSetup == \A k \in LiveSetups : k = Len(setups)

\* A caller is past the await only with the outcome of the setup it awaited, and the
\* callers of a setup in flight or succeeded all await the same one
OutcomeShared ==
  \A c \in 1..Len(callers) :
     /\ callers[c].attempt \in 1..Len(setups)
     /\ callers[c].pc \in {"creating", "returned", "createFailed"}
           => setups[callers[c].attempt] = "fulfilled"
     /\ callers[c].pc = "threw" => setups[callers[c].attempt] = "rejected"
     /\ \A d \in 1..Len(callers) :
           (callers[c].attempt \in LiveSetups /\ callers[d].attempt \in LiveSetups)
              => callers[c].attempt = callers[d].attempt

\* A call joins the setup in flight or succeeded, and starts a new one only when there
\* is none
CallStepOk ==
  Len(callers') = Len(callers) + 1 =>
     IF LiveSetups = {}
     THEN /\ setups' = Append(setups, "pending")
          /\ LastOf(callers').attempt = Len(setups')
     ELSE /\ setups' = setups
          /\ LastOf(callers').attempt \in LiveSetups

\* C40: under any interleaving of ensureAgent calls, checkpointer.setup() is started only
\* when no earlier setup is in flight or has succeeded, so at most one such setup exists
\* and every call made meanwhile awaits it; a caller gets past the await only if the
\* setup it awaited succeeded and is thrown the failure only if that setup failed; the
\* first call after a failed setup starts a new one.
C40_SetupOnce == [](OneLiveSetup /\ OutcomeShared) /\ [][CallStepOk]_vars

C40_Witness ==
  /\ setups = << "rejected", "fulfilled" >>
  /\ callers = << [pc |-> "threw", attempt |-> 1], [pc |-> "threw", attempt |-> 1],
                  [pc |-> "returned", attempt |-> 2] >>

====
